---- MODULE Spec2Model ----
(***************************************************************************)
(* Model of the anime aggregation back end: the AniList/Anify routes       *)
(* (src/unnamed/part_000) and the Jikan routes (src/server/routes/anime.ts)*)
(*                                                                         *)
(* Three components are modelled, each with its own specification:         *)
(*   SpecEpisodes  the AniList/Anify getEpisodes handler (reconciler)      *)
(*   SpecSeasons   the season-chain walk of both getInfo handlers          *)
(*   SpecFetch     the Jikan getEpisodes helper fetchJson (429 retry)      *)
(*   SpecCache     the two in-memory TTL caches                            *)
(*   SpecJikanEpisodes  the Jikan getEpisodes handler, two requests        *)
(*   SpecFacade    the error paths of the AniList/Anify route handlers     *)
(*   SpecTitles    normalizeBaseTitle, applied and applied again           *)
(*   SpecPaginate  the pagination object of both getEpisodes handlers      *)
(*   SpecPick      pickRelation and pickEdge, the choice among candidates  *)
(*   SpecKeys      the cache keys of both files                            *)
(***************************************************************************)
EXTENDS Integers, Sequences, FiniteSets, TLC

VARIABLES
    \* ---- AniList/Anify getEpisodes (part_000:245-297)
    anifyData,    \* what GET /episodes/<id> of the episode source holds (an array of providers)
    epPage,       \* the request's page, after Math.max(1, Number(page) || 1)
    epPc,         \* position of the handler: "start", "done", "again"
    epData,       \* the handler's local `data` (null, or the provider array; sorted in place)
    epList,       \* the handler's local `list`: the full reconciled list before slicing
    epResponse    \* the body passed to res.json

VARIABLES
    \* ---- the season-chain walk of getInfo (anime.ts:110-175, part_000:186-224)
    impl,         \* which getInfo runs: "jikan" (anime.ts) or "anilist" (part_000)
    seen,         \* the Set `seen` of node ids
    back,         \* the array `back` (ids, in the order pushed)
    chain,        \* the array `chain` (ids); empty until the backward walk has ended
    node,         \* the id of the record `node` the next iteration reads (0: null)
    loopI,        \* the loop counter `i` of the walk that is running
    scPc,         \* "init", "back", "fwd", "done"
    titles,       \* anime.ts: the ids that have an entry in `titles`
    format,       \* the format of each node met so far (part_000 keeps it in the node objects)
    startPick,    \* the relations read from the start record, per direction, once read
    pushed,       \* history: the ids each walk pushed, in the order pushed
    failedAt,     \* history: the candidates whose lookup failed, with the way it failed
    infoResponse  \* the body passed to res.json, with its status

epVars == <<anifyData, epPage, epPc, epData, epList, epResponse>>

scVars == <<impl, seen, back, chain, node, loopI, scPc, titles, format, startPick, pushed,
            failedAt, infoResponse>>

VARIABLES
    \* ---- fetchJson (anime.ts:267-282, part_000:231-243)
    fjImpl,       \* which fetchJson runs: "jikan" (anime.ts) or "anilist" (part_000)
    fjPc,         \* "call": about to fetch, "backoff": in the 500 ms wait, "done"
    maxRetries,   \* the `retries` argument of the outermost call
    retries,      \* the `retries` argument of the call that is running
    attempts,     \* history: the number of fetches issued
    waited,       \* history: the milliseconds spent in backoff waits
    responses,    \* history: what each fetch met, in order
    fjResult      \* how the outermost call ended: a returned value or an exception

fjVars == <<fjImpl, fjPc, maxRetries, retries, attempts, waited, responses, fjResult>>

VARIABLES
    \* ---- the TTL caches (part_000:8-18, anime.ts:6-10 and :259-264)
    ckImpl,       \* which cache is exercised: "anilist" (part_000) or "jikan" (anime.ts)
    clock,        \* Date.now(), in milliseconds
    cache,        \* the object `cache` / `episodesCache`: per key, no entry or {at, data}
    ckNow,        \* anime.ts:260, the `now` a running request read when it began
    ckGot,        \* what the latest read of the cache gave, with its key, its time and
                  \* (history) the latest write of the key that preceded it
    ckSets        \* history: per key, the clock and the value of the latest write

ckVars == <<ckImpl, clock, cache, ckNow, ckGot, ckSets>>

VARIABLES
    \* ---- the Jikan getEpisodes handler (anime.ts:255-374)
    upstream,     \* what each upstream source answers, fixed once it was asked
    reqs          \* per request: its position and its locals (page, now, response)
                  \* and, as history, the sources it fetched and the fault it met

jeVars == <<upstream, reqs>>

VARIABLES
    \* ---- the route handlers of part_000 and their upstream calls
    faOp,         \* the operation requested
    faPc,         \* position of the handler
    faCalls,      \* history: the upstream calls made, each with how it ended
    faIds,        \* what getAniIdsByMalOrAni returned, once it has
    faResponse    \* the response sent: status, the list key of the body, the list

faVars == <<faOp, faPc, faCalls, faIds, faResponse>>

VARIABLES
    \* ---- normalizeBaseTitle (anime.ts:12-22, part_000:20-30)
    rawTitle,     \* the title given to the first call: its words, in order
    passes        \* history: what each call returned, each call given the result
                  \* of the one before

ntVars == <<rawTitle, passes>>

VARIABLES
    \* ---- the pagination object of getEpisodes (part_000:283-291, anime.ts:347-358)
    pgImpl,       \* which handler builds it: "anilist" (part_000) or "jikan" (anime.ts)
    pgTotal,      \* the number of episodes in the full list
    pgPage,       \* the page requested
    pgResult,     \* the pagination object built
    pgServed      \* history: per page requested so far, the episodes of its response

pgVars == <<pgImpl, pgTotal, pgPage, pgResult, pgServed>>

VARIABLES
    \* ---- pickRelation (anime.ts:103-108) and pickEdge (part_000:158-163)
    pkImpl,       \* which one runs: "jikan" (pickRelation) or "anilist" (pickEdge)
    pkType,       \* the relation type being walked: "PREQUEL" or "SEQUEL"
    pkList,       \* the relations of the node: per element its relation type and format
    pkPicked      \* what the call returned, once it has

pkVars == <<pkImpl, pkType, pkList, pkPicked>>

VARIABLES
    \* ---- the cache keys (anime.ts:259, part_000:43 and :255)
    kcImpl,       \* the cache object: "episodes" (episodesCache) or "anilist" (cache)
    kcCache,      \* the entries: each with its key and, as history, the request
                  \* parameters of the request that stored it
    kcServed      \* history: the parameters of the request served from the cache
                  \* last, and those of the request that had stored the entry

kcVars == <<kcImpl, kcCache, kcServed>>

VARIABLES
    \* ---- getStreaming (part_000:389-433)
    stPc,         \* position of the handler: "idle", "start", "scan", "respond", "done"
    stEpNum,      \* the episode number requested
    stProviders,  \* the provider array of the episode source, sorted in place at :404
    stIdx,        \* the position of the loop in the sorted array
    stQueried,    \* history: position and answer of every sources lookup made
    stLinks,      \* the links gathered
    stResponse    \* what was sent

stVars == <<stPc, stEpNum, stProviders, stIdx, stQueried, stLinks, stResponse>>

VARIABLES
    \* ---- the Discover page (part_001)
    dvQ,          \* the text of the search box (state q)
    dvGenre,      \* the genre selected (state genre)
    dvPage,       \* state page
    dvLoading,    \* state loading
    dvData,       \* state data: the results displayed and their pagination
    dvInflight,   \* the load() calls whose fetchDiscover has not settled
    dvIssued,     \* history: the number of load() calls made
    dvOverlap,    \* history: a load() was called while another was in flight
    dvStale       \* history: 'load more' was clicked while the search box held
                  \* another text than the query displayed

dvVars == <<dvQ, dvGenre, dvPage, dvLoading, dvData, dvInflight, dvIssued, dvOverlap, dvStale>>

vars == <<anifyData, epPage, epPc, epData, epList, epResponse,
          impl, seen, back, chain, node, loopI, scPc, titles, format, startPick, pushed,
          failedAt, infoResponse,
          fjImpl, fjPc, maxRetries, retries, attempts, waited, responses, fjResult,
          ckImpl, clock, cache, ckNow, ckGot, ckSets,
          upstream, reqs,
          faOp, faPc, faCalls, faIds, faResponse,
          rawTitle, passes,
          pgImpl, pgTotal, pgPage, pgResult, pgServed,
          pkImpl, pkType, pkList, pkPicked,
          kcImpl, kcCache, kcServed,
          stPc, stEpNum, stProviders, stIdx, stQueried, stLinks, stResponse,
          dvQ, dvGenre, dvPage, dvLoading, dvData, dvInflight, dvIssued, dvOverlap,
          dvStale>>

\* Each handler leaves the state of the others alone
EpisodesOnly == UNCHANGED <<scVars, fjVars, ckVars, jeVars, faVars, ntVars, pgVars,
        pkVars, kcVars, stVars, dvVars>>
SeasonsOnly == UNCHANGED <<epVars, fjVars, ckVars, jeVars, faVars, ntVars, pgVars,
        pkVars, kcVars, stVars, dvVars>>
FetchOnly == UNCHANGED <<epVars, scVars, ckVars, jeVars, faVars, ntVars, pgVars,
        pkVars, kcVars, stVars, dvVars>>
CacheOnly == UNCHANGED <<epVars, scVars, fjVars, jeVars, faVars, ntVars, pgVars,
        pkVars, kcVars, stVars, dvVars>>
JikanEpisodesOnly ==
    UNCHANGED <<epVars, scVars, fjVars, ckImpl, ckNow, ckGot, ckSets, faVars, ntVars, pgVars,
                pkVars, kcVars, stVars, dvVars>>
FacadeOnly == UNCHANGED <<epVars, scVars, fjVars, ckVars, jeVars, ntVars, pgVars,
        pkVars, kcVars, stVars, dvVars>>
TitlesOnly == UNCHANGED <<epVars, scVars, fjVars, ckVars, jeVars, faVars, pgVars,
        pkVars, kcVars, stVars, dvVars>>
PaginateOnly == UNCHANGED <<epVars, scVars, fjVars, ckVars, jeVars, faVars, ntVars,
        pkVars, kcVars, stVars, dvVars>>
PickOnly == UNCHANGED <<epVars, scVars, fjVars, ckVars, jeVars, faVars, ntVars, pgVars, kcVars,
        stVars, dvVars>>
KeysOnly == UNCHANGED <<epVars, scVars, fjVars, ckVars, jeVars, faVars, ntVars, pgVars, pkVars,
        stVars, dvVars>>
StreamingOnly == UNCHANGED <<epVars, scVars, fjVars, ckVars, jeVars, faVars, ntVars, pgVars,
        pkVars, kcVars, dvVars>>
DiscoverOnly == UNCHANGED <<epVars, scVars, fjVars, ckVars, jeVars, faVars, ntVars, pgVars,
        pkVars, kcVars, stVars>>

(***************************************************************************)
(* Values                                                                  *)
(***************************************************************************)
Null == [some |-> FALSE]
Some(v) == [some |-> TRUE, val |-> v]

\* Bounds of the model
MaxProviders == 2
MaxTotalEps == 3

\* The pages a request may ask for (part_000:248 makes every page >= 1)
Pages == {1, 2}

(***************************************************************************)
(* Episode reconciler                                                      *)
(***************************************************************************)
\* part_000:264 and :400, the preference list of both handlers
preferred == <<"gogoanime", "zoro", "aniwatch", "animepahe", "9anime", "aniwave">>

\* Provider identifiers the episode source may send; "marin" is in no preference list
ProviderIds == {"gogoanime", "zoro", "marin"}

\* The `number` field of a raw episode as it arrives in JSON: a number, a
\* numeric string ("1"), or anything that Number() turns into NaN (a missing
\* field, a word), which `|| 0` turns into 0.
RawNumbers ==
    {[kind |-> "num", v |-> -1], [kind |-> "num", v |-> 1], [kind |-> "num", v |-> 2],
     [kind |-> "str", v |-> 1], [kind |-> "junk", v |-> 0]}

\* Array.prototype.indexOf: the 0-based position, -1 when absent
IndexOf(list, x) ==
    IF \E i \in 1..Len(list) : list[i] = x
    THEN (CHOOSE i \in 1..Len(list) : list[i] = x /\ \A j \in 1..(i - 1) : list[j] # x) - 1
    ELSE -1

\* part_000:271  typeof ep.number === "number" ? ep.number : Number(ep.number) || 0
ToNum(raw) ==
    CASE raw.kind = "num" -> raw.v
      [] raw.kind = "str" -> raw.v
      [] OTHER -> 0

RECURSIVE Concat(_)
Concat(ss) == IF ss = <<>> THEN <<>> ELSE Head(ss) \o Concat(Tail(ss))

\* part_000:265  providers.sort((a, b) => preferred.indexOf(a.providerId) - preferred.indexOf(b.providerId))
\* Array.prototype.sort is stable: elements with equal keys keep their order.
ProviderRank(p) == IndexOf(preferred, p.providerId)

SortProviders(providers) ==
    LET Pick(k) == SelectSeq(providers, LAMBDA p : ProviderRank(p) = k)
    IN  Concat([i \in 1..(Len(preferred) + 1) |-> Pick(i - 2)])

\* part_000:267-279, the Map keyed by number, in insertion order
MapHas(map, num) == \E i \in 1..Len(map) : map[i].number = num

MapSet(map, num, ep) ==
    IF ~ MapHas(map, num) THEN Append(map, [id |-> ep.id, number |-> num]) ELSE map

RECURSIVE AddEpisodes(_, _)
AddEpisodes(map, eps) ==
    IF eps = <<>> THEN map
    ELSE LET num == ToNum(Head(eps).number)
         IN  AddEpisodes(IF num = 0 THEN map ELSE MapSet(map, num, Head(eps)), Tail(eps))

RECURSIVE MergeProviders(_, _)
MergeProviders(map, provs) ==
    IF provs = <<>> THEN map
    ELSE MergeProviders(AddEpisodes(map, Head(provs).episodes), Tail(provs))

\* part_000:281  .sort((a, b) => a.number - b.number)
RECURSIVE InsertByNumber(_, _)
InsertByNumber(sorted, e) ==
    IF sorted = <<>> THEN <<e>>
    ELSE IF e.number - Head(sorted).number < 0 THEN <<e>> \o sorted
    ELSE <<Head(sorted)>> \o InsertByNumber(Tail(sorted), e)

\* Mutant of SortByNumber: the comparator the other way round (b.number - a.number)
RECURSIVE InsertByNumberDesc(_, _)
InsertByNumberDesc(sorted, e) ==
    IF sorted = <<>> THEN <<e>>
    ELSE IF Head(sorted).number - e.number < 0 THEN <<e>> \o sorted
    ELSE <<Head(sorted)>> \o InsertByNumberDesc(Tail(sorted), e)

RECURSIVE SortByNumberDesc(_)
SortByNumberDesc(list) ==
    IF list = <<>> THEN <<>>
    ELSE InsertByNumberDesc(SortByNumberDesc(SubSeq(list, 1, Len(list) - 1)), list[Len(list)])

RECURSIVE SortWith(_, _)
SortWith(acc, rest) ==
    IF rest = <<>> THEN acc ELSE SortWith(InsertByNumber(acc, Head(rest)), Tail(rest))

SortByNumber(list) == SortWith(<<>>, list)

Reconcile(sortedProviders) == SortByNumber(MergeProviders(<<>>, sortedProviders))

\* part_000:249
perPage == 24

Min(a, b) == IF a < b THEN a ELSE b
Max(a, b) == IF a > b THEN a ELSE b
CeilDiv(a, b) == (a + b - 1) \div b

\* Mutant of Slice: the slice starts one element early
SliceFromBefore(list, from, to) ==
    LET lo == Min(from, Len(list))
        hi == Min(to, Len(list))
    IN  IF hi <= lo THEN <<>> ELSE SubSeq(list, Max(1, lo), hi)

\* part_000:285  list.slice(start, start + perPage)
Slice(list, from, to) ==
    LET lo == Min(from, Len(list))
        hi == Min(to, Len(list))
    IN  IF hi <= lo THEN <<>> ELSE SubSeq(list, lo + 1, hi)

\* Mutant of Paginate: an empty list answered with the payload of the failed lookup
PaginateNullWhenEmpty(list, page) ==
    LET total == Len(list)
        start == (page - 1) * perPage
    IN  IF list = <<>> THEN [episodes |-> <<>>, pagination |-> [some |-> FALSE]]
        ELSE [episodes |-> Slice(list, start, start + perPage),
              pagination |-> Some([page |-> page,
                                   has_next_page |-> total > page * perPage,
                                   last_visible_page |-> Max(1, CeilDiv(total, perPage)),
                                   items |-> [count |-> Min(perPage, Max(0, total - start)),
                                              total |-> total,
                                              per_page |-> perPage]])]

\* Mutant of Paginate: a next page announced when the list ends with this page
PaginateNextAtBoundary(list, page) ==
    LET total == Len(list)
        start == (page - 1) * perPage
    IN  [episodes |-> Slice(list, start, start + perPage),
         pagination |-> Some([page |-> page,
                              has_next_page |-> total >= page * perPage,
                              last_visible_page |-> Max(1, CeilDiv(total, perPage)),
                              items |-> [count |-> Min(perPage, Max(0, total - start)),
                                         total |-> total,
                                         per_page |-> perPage]])]

\* part_000:283-291
Paginate(list, page) ==
    LET total == Len(list)
        start == (page - 1) * perPage
    IN  [episodes |-> Slice(list, start, start + perPage),
         pagination |-> Some([page |-> page,
                              has_next_page |-> total > page * perPage,
                              last_visible_page |-> Max(1, CeilDiv(total, perPage)),
                              items |-> [count |-> Min(perPage, Max(0, total - start)),
                                         total |-> total,
                                         per_page |-> perPage]])]

EmptyEpisodes == [episodes |-> <<>>, pagination |-> Null]

\* Every raw episode has an id of its own, <<provider position, episode position>>.
TotalEps(data) == Len(Concat([i \in 1..Len(data) |-> data[i].episodes]))

\* The caches while no handler that uses them is running
NoEntry == [some |-> FALSE]
CacheKeys == {1, 2}

CkIdle ==
    /\ ckImpl = "none"
    /\ clock = 0
    /\ cache = [k \in CacheKeys |-> NoEntry]
    /\ ckNow = Null
    /\ ckGot = Null
    /\ ckSets = [k \in CacheKeys |-> Null]

\* The Jikan getEpisodes handler while it is not the one running
JeIdle ==
    /\ upstream = <<>>
    /\ reqs = <<>>

\* The route handlers of part_000 while they are not the ones running
FaIdle ==
    /\ faOp = "none"
    /\ faPc = "idle"
    /\ faCalls = <<>>
    /\ faIds = Null
    /\ faResponse = Null

\* normalizeBaseTitle while no title is being normalized
NtIdle ==
    /\ rawTitle = <<>>
    /\ passes = <<>>

\* The pagination variables while no pagination object is being built
PgIdle ==
    /\ pgImpl = "none"
    /\ pgTotal = 0
    /\ pgPage = 1
    /\ pgResult = Null
    /\ pgServed = <<>>

\* pickRelation and pickEdge while neither is being exercised
PkIdle ==
    /\ pkImpl = "none"
    /\ pkType = "PREQUEL"
    /\ pkList = <<>>
    /\ pkPicked = Null

\* getStreaming while another handler is the one running
StIdle ==
    /\ stPc = "idle"
    /\ stEpNum = 1
    /\ stProviders = <<>>
    /\ stIdx = 0
    /\ stQueried = <<>>
    /\ stLinks = <<>>
    /\ stResponse = Null

\* The Discover page while it is not mounted
DvIdle ==
    /\ dvQ = "none"
    /\ dvGenre = "none"
    /\ dvPage = 0
    /\ dvLoading = FALSE
    /\ dvData = Null
    /\ dvInflight = {}
    /\ dvIssued = 0
    /\ dvOverlap = FALSE
    /\ dvStale = FALSE

\* The cache keys while they are not being exercised
KcIdle ==
    /\ kcImpl = "none"
    /\ kcCache = {}
    /\ kcServed = Null

\* The season-chain variables while the episode handler is the one running
ScIdle ==
    /\ impl = "none"
    /\ seen = {}
    /\ back = <<>>
    /\ chain = <<>>
    /\ node = 0
    /\ loopI = 0
    /\ scPc = "idle"
    /\ titles = {}
    /\ format = <<>>
    /\ startPick = <<>>
    /\ pushed = <<>>
    /\ failedAt = {}
    /\ infoResponse = Null

\* The fetchJson variables while another handler is the one running
FjIdle ==
    /\ fjImpl = "none"
    /\ fjPc = "idle"
    /\ maxRetries = 0
    /\ retries = 0
    /\ attempts = 0
    /\ waited = 0
    /\ responses = <<>>
    /\ fjResult = Null

InitEpisodes ==
    /\ PkIdle
    /\ KcIdle
    /\ StIdle
    /\ DvIdle
    /\ NtIdle
    /\ PgIdle
    /\ FaIdle
    /\ JeIdle
    /\ ScIdle
    /\ FjIdle
    /\ CkIdle
    /\ anifyData = <<>>
    /\ epPc = "start"
    /\ epPage = 1
    /\ epData = Null
    /\ epList = <<>>
    /\ epResponse = Null

\* The episode source lists one more provider for the title
UpstreamAddProvider ==
    /\ epPc = "start"
    /\ Len(anifyData) < MaxProviders
    /\ \E p \in ProviderIds :
          anifyData' = Append(anifyData, [providerId |-> p, episodes |-> <<>>])
    /\ UNCHANGED <<epPage, epPc, epData, epList, epResponse>>
    /\ EpisodesOnly

\* The provider listed last publishes one more episode
UpstreamAddEpisode ==
    /\ epPc = "start"
    /\ anifyData # <<>>
    /\ TotalEps(anifyData) < MaxTotalEps
    /\ \E r \in RawNumbers :
          LET i == Len(anifyData)
              ep == [id |-> <<i, Len(anifyData[i].episodes) + 1>>, number |-> r]
          IN  anifyData' = [anifyData EXCEPT ![i].episodes = Append(@, ep)]
    /\ UNCHANGED <<epPage, epPc, epData, epList, epResponse>>
    /\ EpisodesOnly

\* part_000:251-261  the id is not resolved, or the episode lookup yields null
\* (fetchJson turns every failure into null): the empty payload
GetEpisodesNoData ==
    /\ epPc = "start"
    /\ \E page \in Pages : epPage' = page
    /\ epResponse' = Some(EmptyEpisodes)
    /\ epPc' = "done"
    /\ UNCHANGED <<anifyData, epData, epList>>
    /\ EpisodesOnly

\* part_000:256-293  the lookup yields the provider array: sort it in place,
\* merge, sort by number, paginate, respond
GetEpisodes ==
    /\ epPc = "start"
    /\ \E page \in Pages :
          LET sorted == SortProviders(anifyData)
              list == Reconcile(sorted)
          IN  /\ epPage' = page
              /\ epData' = Some(sorted)
              /\ epList' = list
              /\ epResponse' = Some(Paginate(list, page))
    /\ epPc' = "done"
    /\ UNCHANGED <<anifyData>>
    /\ EpisodesOnly

\* part_000:255-293  a second request for the same id and page while the entry
\* is fresh: getCached hands back the very array the first request sorted in
\* place; it is sorted again, merged, sorted by number, paginated
GetEpisodesCached ==
    /\ epPc = "done"
    /\ epData.some
    /\ LET sorted == SortProviders(epData.val)
           list == Reconcile(sorted)
       IN  /\ epData' = Some(sorted)
           /\ epList' = list
           /\ epResponse' = Some(Paginate(list, epPage))
    /\ epPc' = "again"
    /\ UNCHANGED <<anifyData, epPage>>
    /\ EpisodesOnly

NextEpisodes ==
    \/ UpstreamAddProvider
    \/ UpstreamAddEpisode
    \/ GetEpisodesNoData
    \/ GetEpisodes
    \/ GetEpisodesCached

SpecEpisodes == InitEpisodes /\ [][NextEpisodes]_vars

(***************************************************************************)
(* Season-chain walk                                                       *)
(***************************************************************************)
\* Bound of the model: the number of distinct node ids the upstream can name
MaxNodes == 18

\* Mutant of JikanMaxDepth: one iteration too many (i <= 8)
JikanMaxDepthPlusOne == 8 + 1

\* anime.ts:123 and :143, the depth of each walk of buildSeasonsChain
JikanMaxDepth == 8
\* part_000:196 and :207, the depth of each walk of the AniList getInfo
AniListMaxDepth == 3

\* anime.ts:116 / part_000:190, the id of the record the walk starts from.
\* Ids are compared for equality only, so they are numbered in the order in
\* which the walk meets them: the start is 1 and a node never met before is
\* the next free number.
startId == 1

Formats == {"TV", "MOVIE", "OVA"}
Outcomes == {"ok", "null", "throw"}

Reverse(seq) == [k \in 1..Len(seq) |-> seq[Len(seq) + 1 - k]]

\* Array.prototype.find gives the first element satisfying the test: the head
\* of the hits, or Null
First(hits) == IF hits = <<>> THEN Null ELSE Some(Head(hits))

\* anime.ts:103-108
pickRelation(rel) ==
    IF ~ rel.some THEN Null
    ELSE LET entry == rel.val.entry
             tv == First(SelectSeq(entry, LAMBDA x : x.type = "TV"))
             chosen == IF tv.some THEN tv ELSE IF entry # <<>> THEN Some(entry[1]) ELSE Null
         IN  IF chosen.some THEN Some([id |-> chosen.val.mal_id, format |-> chosen.val.type])
             ELSE Null

\* Mutant of pickEdge: the first candidate, whatever its format
pickEdgeFirst(edges, type) ==
    LET ofType == SelectSeq(edges, LAMBDA e : e.relationType = type)
        candidates == [k \in 1..Len(ofType) |-> ofType[k].node]
    IN  IF candidates # <<>> THEN Some(candidates[1]) ELSE Null

\* part_000:158-163
pickEdge(edges, type) ==
    LET ofType == SelectSeq(edges, LAMBDA e : e.relationType = type)
        candidates == [k \in 1..Len(ofType) |-> ofType[k].node]
        tv == First(SelectSeq(candidates, LAMBDA n : n.format = "TV" \/ n.format = "ONA"))
    IN  IF tv.some THEN tv ELSE IF candidates # <<>> THEN Some(candidates[1]) ELSE Null

\* The ids a relation list may name: the start, the node being read (a
\* self-loop), a node already in `seen` (one stands for all of them: the walk
\* only asks whether the id is in `seen`), and a node never met before.
Met == seen \cup {startId}
Fresh == Cardinality(Met) + 1
SetMin(S) == CHOOSE x \in S : \A y \in S : x <= y
CandidateIds ==
    {startId, node} \cup (IF seen = {} THEN {} ELSE {SetMin(seen)})
                    \cup (IF Fresh <= MaxNodes THEN {Fresh} ELSE {})

\* Lists of at most two elements of S
ShortLists(S) == {<<>>} \cup {<<x>> : x \in S} \cup {<<x, y>> : x \in S, y \in S}

\* anime.ts:124-127 / :144-147  what node.relations.find(r => r.relation === ...) may
\* give: no such relation, or a relation with its entries
JikanRelations ==
    {Null} \cup {Some([entry |-> l]) :
                    l \in ShortLists([mal_id : CandidateIds, type : {"TV", "OVA"}])}

\* part_000:151  the edges of a record; a node met before keeps its format
FormatsOf(id) == IF id <= Len(format) THEN {format[id]} ELSE Formats
AniListNodes == UNION {{[id |-> id, format |-> f] : f \in FormatsOf(id)} : id \in CandidateIds}
AniListEdges == ShortLists([relationType : {"PREQUEL", "SEQUEL"}, node : AniListNodes])

\* The candidate the current iteration selects.  The relations of the start
\* record are those read from it the first time.
Picks(dir) ==
    IF node = startId /\ startPick[dir].some THEN {startPick[dir].val}
    ELSE IF impl = "jikan" THEN {pickRelation(rel) : rel \in JikanRelations}
    ELSE {pickEdge(edges, IF dir = "pre" THEN "PREQUEL" ELSE "SEQUEL") : edges \in AniListEdges}

Remember(dir, pick) ==
    IF node = startId THEN [startPick EXCEPT ![dir] = Some(pick)] ELSE startPick

\* A node met for the first time gets its format
WithFormat(cand) ==
    IF impl = "anilist" /\ cand.id > Len(format) THEN Append(format, cand.format) ELSE format

EpIdle ==
    /\ anifyData = <<>>
    /\ epPage = 1
    /\ epPc = "idle"
    /\ epData = Null
    /\ epList = <<>>
    /\ epResponse = Null

InitSeasons ==
    /\ PkIdle
    /\ KcIdle
    /\ StIdle
    /\ DvIdle
    /\ NtIdle
    /\ PgIdle
    /\ FaIdle
    /\ JeIdle
    /\ EpIdle
    /\ FjIdle
    /\ CkIdle
    /\ impl \in {"jikan", "anilist"}
    /\ seen = {}
    /\ back = <<>>
    /\ chain = <<>>
    /\ node = 0
    /\ loopI = 0
    /\ scPc = "init"
    /\ titles = {}
    \* the format of the requested title (anime.ts: the `type` of the record,
    \* which buildSeasonsChain does not read)
    /\ format \in {<<f>> : f \in Formats}
    /\ startPick = [pre |-> Null, seq |-> Null]
    /\ pushed = <<>>
    /\ failedAt = {}
    /\ infoResponse = Null

\* anime.ts:167-174  chain.ids.map((id, i) => ({id, number: i + 1, title}))
JikanSeasons(ids, titled) ==
    [k \in 1..Len(ids) |-> [id |-> ids[k], number |-> k, hasTitle |-> ids[k] \in titled]]

\* part_000:216-222  chain.filter(n => n && n.format !== "MOVIE").map((n, idx) => ...)
AniListSeasons(ids, fmt) ==
    LET kept == SelectSeq(ids, LAMBDA id : fmt[id] # "MOVIE")
    IN  [k \in 1..Len(kept) |-> [id |-> kept[k], number |-> k, hasTitle |-> TRUE]]

Ok200(seasons) == Some([status |-> 200, seasons |-> seasons])
Error500 == Some([status |-> 500, seasons |-> <<>>])

\* anime.ts:113-122  buildSeasonsChain begins: seen is empty, titles holds the start
JikanBuildSeasonsChain ==
    /\ scPc = "init" /\ impl = "jikan"
    /\ SeasonsOnly
    /\ seen' = {}
    /\ titles' = {startId}
    /\ node' = startId
    /\ loopI' = 0
    /\ scPc' = "back"
    /\ UNCHANGED <<impl, back, chain, format, startPick, pushed, failedAt, infoResponse>>

\* part_000:187  a movie has no seasons
AniListMovie ==
    /\ scPc = "init" /\ impl = "anilist"
    /\ SeasonsOnly
    /\ format[startId] = "MOVIE"
    /\ infoResponse' = Ok200(<<>>)
    /\ scPc' = "done"
    /\ UNCHANGED <<impl, seen, back, chain, node, loopI, titles, format, startPick, pushed,
                   failedAt>>

\* part_000:190-195  the start record with its relations
AniListFetchStart ==
    /\ scPc = "init" /\ impl = "anilist"
    /\ SeasonsOnly
    /\ format[startId] # "MOVIE"
    /\ \E outcome \in Outcomes :
         CASE outcome = "ok" ->
                /\ seen' = {startId}
                /\ node' = startId
                /\ scPc' = "back"
                /\ UNCHANGED <<infoResponse, failedAt>>
           [] outcome = "null" ->
                /\ infoResponse' = Ok200(<<>>)
                /\ scPc' = "done"
                /\ failedAt' = {[id |-> startId, dir |-> "start", how |-> outcome]}
                /\ UNCHANGED <<seen, node>>
           [] OTHER ->
                /\ infoResponse' = Error500
                /\ scPc' = "done"
                /\ failedAt' = {[id |-> startId, dir |-> "start", how |-> outcome]}
                /\ UNCHANGED <<seen, node>>
    /\ UNCHANGED <<impl, back, chain, loopI, titles, format, startPick, pushed>>

\* Mutant of EndBack: the prequels are not reversed (chain = [...back, start])
EndBackNoReverse(b) ==
    /\ back' = b
    /\ chain' = b \o <<startId>>
    /\ node' = startId
    /\ loopI' = 0
    /\ scPc' = "fwd"

\* anime.ts:139-142 / part_000:204-206  the backward walk has ended:
\* chain = [...back.reverse(), start] (reverse() reverses `back` in place)
EndBack(b) ==
    /\ back' = Reverse(b)
    /\ chain' = Reverse(b) \o <<startId>>
    /\ node' = startId
    /\ loopI' = 0
    /\ scPc' = "fwd"

Failed(id, dir, how) == failedAt \cup {[id |-> id, dir |-> dir, how |-> how]}

\* anime.ts:123-136  one iteration of the walk over prequels
JikanBack ==
    /\ scPc = "back" /\ impl = "jikan"
    /\ SeasonsOnly
    /\ \E pick \in Picks("pre") :
         /\ startPick' = Remember("pre", pick)
         /\ IF ~ pick.some \/ pick.val.id \in seen
            THEN /\ EndBack(back)
                 /\ UNCHANGED <<seen, titles, pushed, failedAt, infoResponse>>
            ELSE LET id == pick.val.id IN
                 /\ seen' = seen \cup {id}
                 /\ pushed' = Append(pushed, [dir |-> "back", id |-> id])
                 /\ \E outcome \in Outcomes :
                      CASE outcome = "ok" ->
                             /\ titles' = titles \cup {id}
                             /\ IF loopI + 1 < JikanMaxDepth
                                THEN /\ back' = Append(back, id)
                                     /\ node' = id
                                     /\ loopI' = loopI + 1
                                     /\ UNCHANGED <<chain, scPc>>
                                ELSE EndBack(Append(back, id))
                             /\ UNCHANGED <<failedAt, infoResponse>>
                        [] outcome = "null" ->
                             /\ EndBack(Append(back, id))
                             /\ failedAt' = Failed(id, "back", outcome)
                             /\ UNCHANGED <<titles, infoResponse>>
                        [] OTHER ->
                             \* fetchByMal throws, buildSeasonsChain rejects,
                             \* .catch(() => null) at anime.ts:166: seasons = []
                             /\ back' = Append(back, id)
                             /\ failedAt' = Failed(id, "back", outcome)
                             /\ infoResponse' = Ok200(<<>>)
                             /\ scPc' = "done"
                             /\ UNCHANGED <<chain, node, loopI, titles>>
    /\ UNCHANGED <<impl, format>>

\* anime.ts:143-174  one iteration of the walk over sequels; when the walk
\* ends, the seasons are mapped from the chain and sent
JikanForward ==
    /\ scPc = "fwd" /\ impl = "jikan"
    /\ SeasonsOnly
    /\ \E pick \in Picks("seq") :
         /\ startPick' = Remember("seq", pick)
         /\ IF ~ pick.some \/ pick.val.id \in seen
            THEN /\ infoResponse' = Ok200(JikanSeasons(chain, titles))
                 /\ scPc' = "done"
                 /\ UNCHANGED <<seen, chain, node, loopI, titles, pushed, failedAt>>
            ELSE LET id == pick.val.id IN
                 /\ seen' = seen \cup {id}
                 /\ \E outcome \in Outcomes :
                      CASE outcome = "ok" ->
                             /\ titles' = titles \cup {id}
                             /\ chain' = Append(chain, id)
                             /\ pushed' = Append(pushed, [dir |-> "fwd", id |-> id])
                             /\ node' = id
                             /\ loopI' = loopI + 1
                             /\ IF loopI + 1 < JikanMaxDepth
                                THEN UNCHANGED <<scPc, infoResponse>>
                                ELSE /\ infoResponse' = Ok200(JikanSeasons(chain', titles'))
                                     /\ scPc' = "done"
                             /\ UNCHANGED failedAt
                        [] outcome = "null" ->
                             /\ failedAt' = Failed(id, "fwd", outcome)
                             /\ infoResponse' = Ok200(JikanSeasons(chain, titles))
                             /\ scPc' = "done"
                             /\ UNCHANGED <<chain, node, loopI, titles, pushed>>
                        [] OTHER ->
                             /\ failedAt' = Failed(id, "fwd", outcome)
                             /\ infoResponse' = Ok200(<<>>)
                             /\ scPc' = "done"
                             /\ UNCHANGED <<chain, node, loopI, titles, pushed>>
    /\ UNCHANGED <<impl, back, format>>

\* part_000:196-203  one iteration of the walk over prequels
AniListBack ==
    /\ scPc = "back" /\ impl = "anilist"
    /\ SeasonsOnly
    /\ \E pick \in Picks("pre") :
         /\ startPick' = Remember("pre", pick)
         /\ IF ~ pick.some \/ pick.val.id \in seen
            THEN /\ EndBack(back)
                 /\ UNCHANGED <<seen, format, pushed, failedAt, infoResponse>>
            ELSE LET id == pick.val.id IN
                 /\ seen' = seen \cup {id}
                 /\ format' = WithFormat(pick.val)
                 /\ pushed' = Append(pushed, [dir |-> "back", id |-> id])
                 /\ \E outcome \in Outcomes :
                      CASE outcome = "ok" ->
                             /\ IF loopI + 1 < AniListMaxDepth
                                THEN /\ back' = Append(back, id)
                                     /\ node' = id
                                     /\ loopI' = loopI + 1
                                     /\ UNCHANGED <<chain, scPc>>
                                ELSE EndBack(Append(back, id))
                             /\ UNCHANGED <<failedAt, infoResponse>>
                        [] outcome = "null" ->
                             /\ EndBack(Append(back, id))
                             /\ failedAt' = Failed(id, "back", outcome)
                             /\ UNCHANGED infoResponse
                        [] OTHER ->
                             \* gql throws: the catch of getInfo, part_000:225-227
                             /\ back' = Append(back, id)
                             /\ failedAt' = Failed(id, "back", outcome)
                             /\ infoResponse' = Error500
                             /\ scPc' = "done"
                             /\ UNCHANGED <<chain, node, loopI>>
    /\ UNCHANGED <<impl, titles>>

\* part_000:207-224  one iteration of the walk over sequels; when the walk
\* ends, the seasons are filtered and mapped from the chain and sent
AniListForward ==
    /\ scPc = "fwd" /\ impl = "anilist"
    /\ SeasonsOnly
    /\ \E pick \in Picks("seq") :
         /\ startPick' = Remember("seq", pick)
         /\ IF ~ pick.some \/ pick.val.id \in seen
            THEN /\ infoResponse' = Ok200(AniListSeasons(chain, format))
                 /\ scPc' = "done"
                 /\ UNCHANGED <<seen, chain, node, loopI, format, pushed, failedAt>>
            ELSE LET id == pick.val.id IN
                 /\ seen' = seen \cup {id}
                 /\ format' = WithFormat(pick.val)
                 /\ chain' = Append(chain, id)
                 /\ pushed' = Append(pushed, [dir |-> "fwd", id |-> id])
                 /\ \E outcome \in Outcomes :
                      CASE outcome = "ok" ->
                             /\ node' = id
                             /\ loopI' = loopI + 1
                             /\ IF loopI + 1 < AniListMaxDepth
                                THEN UNCHANGED <<scPc, infoResponse>>
                                ELSE /\ infoResponse' = Ok200(AniListSeasons(chain', format'))
                                     /\ scPc' = "done"
                             /\ UNCHANGED failedAt
                        [] outcome = "null" ->
                             /\ failedAt' = Failed(id, "fwd", outcome)
                             /\ infoResponse' = Ok200(AniListSeasons(chain', format'))
                             /\ scPc' = "done"
                             /\ UNCHANGED <<node, loopI>>
                        [] OTHER ->
                             /\ failedAt' = Failed(id, "fwd", outcome)
                             /\ infoResponse' = Error500
                             /\ scPc' = "done"
                             /\ UNCHANGED <<node, loopI>>
    /\ UNCHANGED <<impl, back, titles>>

NextSeasons ==
    \/ JikanBuildSeasonsChain
    \/ AniListMovie
    \/ AniListFetchStart
    \/ JikanBack
    \/ JikanForward
    \/ AniListBack
    \/ AniListForward

SpecSeasons == InitSeasons /\ [][NextSeasons]_vars

(***************************************************************************)
(* fetchJson                                                               *)
(***************************************************************************)
\* Bound of the model: the largest `retries` argument tried
MaxRetries == 3

\* anime.ts:273, the wait before a retry, in milliseconds
BackoffMs == 500

\* What one fetch can meet: an HTTP response, a network error, or the abort by
\* the timeout timer before the response.  The body of a response parses as
\* JSON, is malformed, or is cut by the abort while r.json() reads it.
FetchEvents ==
    {[kind |-> "http", status |-> st, body |-> "json"] : st \in {200, 404, 429, 500, 503}}
        \cup {[kind |-> "http", status |-> 200, body |-> "malformed"],
              [kind |-> "http", status |-> 200, body |-> "aborted"],
              [kind |-> "network", status |-> 0, body |-> "none"],
              [kind |-> "abort", status |-> 0, body |-> "none"]}

\* Response.ok
IsOk(status) == status >= 200 /\ status <= 299

Returned(v) == [how |-> "returned", value |-> v]
Thrown == [how |-> "thrown", value |-> Null]

\* Mutant of ShouldRetry: retries >= 0 in place of retries > 0
ShouldRetryOffByOne(ev, left) == ev.kind = "http" /\ ev.status = 429 /\ left >= 0

\* anime.ts:272  r.status === 429 && retries > 0
ShouldRetry(ev, left) == ev.kind = "http" /\ ev.status = 429 /\ left > 0

\* anime.ts:270-281  the outcome of a call whose fetch met ev and does not retry:
\* try/finally has no catch, so a rejected fetch or r.json() propagates
JikanOutcome(ev) ==
    IF ev.kind # "http" THEN Thrown
    ELSE IF ~ IsOk(ev.status) THEN Returned(Some([ok |-> FALSE, status |-> ev.status]))
    ELSE IF ev.body # "json" THEN Thrown
    ELSE Returned(Some([ok |-> TRUE, status |-> ev.status]))

\* part_000:234-242  every failure is caught and becomes null
AniListOutcome(ev) ==
    IF ev.kind # "http" THEN Returned(Null)
    ELSE IF ~ IsOk(ev.status) THEN Returned(Null)
    ELSE IF ev.body # "json" THEN Returned(Null)
    ELSE Returned(Some([ok |-> TRUE, status |-> ev.status]))

InitFetch ==
    /\ PkIdle
    /\ KcIdle
    /\ StIdle
    /\ DvIdle
    /\ NtIdle
    /\ PgIdle
    /\ FaIdle
    /\ JeIdle
    /\ EpIdle
    /\ ScIdle
    /\ CkIdle
    /\ fjImpl \in {"jikan", "anilist"}
    /\ fjPc = "call"
    /\ maxRetries \in IF fjImpl = "jikan" THEN 0..MaxRetries ELSE {0}
    /\ retries = maxRetries
    /\ attempts = 0
    /\ waited = 0
    /\ responses = <<>>
    /\ fjResult = Null

\* anime.ts:268-281  one call of fetchJson up to its return, its throw or its wait
JikanFetchJson ==
    /\ fjPc = "call" /\ fjImpl = "jikan"
    /\ FetchOnly
    /\ attempts' = attempts + 1
    /\ \E ev \in FetchEvents :
         /\ responses' = Append(responses, ev)
         /\ IF ShouldRetry(ev, retries)
            THEN fjPc' = "backoff" /\ UNCHANGED fjResult
            ELSE fjPc' = "done" /\ fjResult' = JikanOutcome(ev)
    /\ UNCHANGED <<fjImpl, maxRetries, retries, waited>>

\* anime.ts:273-274  the wait is over: fetchJson(url, timeoutMs, retries - 1)
JikanBackoffElapsed ==
    /\ fjPc = "backoff" /\ fjImpl = "jikan"
    /\ FetchOnly
    /\ waited' = waited + BackoffMs
    /\ retries' = retries - 1
    /\ fjPc' = "call"
    /\ UNCHANGED <<fjImpl, maxRetries, attempts, responses, fjResult>>

\* part_000:231-243
AniListFetchJson ==
    /\ fjPc = "call" /\ fjImpl = "anilist"
    /\ FetchOnly
    /\ attempts' = attempts + 1
    /\ \E ev \in FetchEvents :
         /\ responses' = Append(responses, ev)
         /\ fjResult' = AniListOutcome(ev)
    /\ fjPc' = "done"
    /\ UNCHANGED <<fjImpl, maxRetries, retries, waited>>

NextFetch == JikanFetchJson \/ JikanBackoffElapsed \/ AniListFetchJson

SpecFetch == InitFetch /\ [][NextFetch]_vars

(***************************************************************************)
(* TTL caches                                                              *)
(***************************************************************************)
\* Bound of the model: how many times the clock advances
MaxTicks == 6

\* part_000:8
TTL_MS == 5 * 60 * 1000
\* anime.ts:6
EPISODES_TTL_MS == 3 * 60 * 1000
\* The step of the clock: one minute
TickMs == 60 * 1000

\* A JavaScript null, which is also what a read that finds nothing gives
JsNull == Null
\* What the callers store: part_000 stores whatever the upstream sent as
\* `data` (gql, :54) or the provider array (:259); anime.ts stores payloads
CacheValues == {JsNull, Some("a"), Some("b")}
ValuesOf(which) == IF which = "jikan" THEN CacheValues \ {JsNull} ELSE CacheValues

\* Mutant of Expired: the operands of the subtraction swapped
ExpiredSwapped(entry, now) == entry.at - now > TTL_MS

\* part_000:13  Date.now() - entry.at > TTL_MS
Expired(entry, now) == now - entry.at > TTL_MS

\* part_000:10-15
getCached(c, key, now) ==
    IF ~ c[key].some THEN JsNull
    ELSE IF Expired(c[key], now) THEN JsNull
    ELSE c[key].data

\* part_000:16-18, and the writes of anime.ts:302, :360 and :369
setCached(c, key, at, data) == [c EXCEPT ![key] = [some |-> TRUE, at |-> at, data |-> data]]

\* anime.ts:261-264  cached && now - cached.at < EPISODES_TTL_MS ? cached.data : (miss)
JikanCacheLookup(c, key, now) ==
    IF c[key].some /\ now - c[key].at < EPISODES_TTL_MS THEN c[key].data ELSE JsNull

InitCache ==
    /\ PkIdle
    /\ KcIdle
    /\ StIdle
    /\ DvIdle
    /\ NtIdle
    /\ PgIdle
    /\ FaIdle
    /\ JeIdle
    /\ EpIdle
    /\ ScIdle
    /\ FjIdle
    /\ ckImpl \in {"anilist", "jikan"}
    /\ clock = 0
    /\ cache = [k \in CacheKeys |-> NoEntry]
    /\ ckNow = Null
    /\ ckGot = Null
    /\ ckSets = [k \in CacheKeys |-> Null]

\* Time passes
Tick ==
    /\ ckImpl # "none"
    /\ clock < MaxTicks * TickMs
    /\ clock' = clock + TickMs
    /\ UNCHANGED <<ckImpl, cache, ckNow, ckGot, ckSets>>
    /\ CacheOnly

\* part_000:44 and :256  a caller reads the cache
AniListGetCached ==
    /\ ckImpl = "anilist"
    /\ \E k \in CacheKeys :
          ckGot' = Some([key |-> k, at |-> clock, lastSet |-> ckSets[k],
                          value |-> getCached(cache, k, clock)])
    /\ UNCHANGED <<ckImpl, clock, cache, ckNow, ckSets>>
    /\ CacheOnly

\* part_000:54 and :259  a caller stores a value: the entry is stamped Date.now()
AniListSetCached ==
    /\ ckImpl = "anilist"
    /\ \E k \in CacheKeys, v \in ValuesOf("anilist") :
          /\ cache' = setCached(cache, k, clock, v)
          /\ ckSets' = [ckSets EXCEPT ![k] = Some([at |-> clock, value |-> v])]
    /\ UNCHANGED <<ckImpl, clock, ckNow, ckGot>>
    /\ CacheOnly

\* anime.ts:258-264  a request begins: it reads Date.now() into `now` and looks
\* its key up; on a miss it goes on to fetch
JikanRequestBegins ==
    /\ ckImpl = "jikan"
    /\ ckNow = Null
    /\ \E k \in CacheKeys :
          LET got == JikanCacheLookup(cache, k, clock) IN
          /\ ckGot' = Some([key |-> k, at |-> clock, lastSet |-> ckSets[k], value |-> got])
          /\ ckNow' = IF got = JsNull THEN Some([key |-> k, now |-> clock]) ELSE Null
    /\ UNCHANGED <<ckImpl, clock, cache, ckSets>>
    /\ CacheOnly

\* anime.ts:302, :360, :369  after its fetches the request stores its payload
\* with `at: now`, the time read when the request began
JikanRequestStores ==
    /\ ckImpl = "jikan"
    /\ ckNow # Null
    /\ \E v \in ValuesOf("jikan") :
          /\ cache' = setCached(cache, ckNow.val.key, ckNow.val.now, v)
          /\ ckSets' = [ckSets EXCEPT ![ckNow.val.key] = Some([at |-> clock, value |-> v])]
    /\ ckNow' = Null
    /\ UNCHANGED <<ckImpl, clock, ckGot>>
    /\ CacheOnly

NextCache ==
    \/ Tick
    \/ AniListGetCached
    \/ AniListSetCached
    \/ JikanRequestBegins
    \/ JikanRequestStores

SpecCache == InitCache /\ [][NextCache]_vars

(***************************************************************************)
(* The Jikan getEpisodes handler                                           *)
(***************************************************************************)
\* Bound of the model: how many times a whole TTL passes while requests run
MaxExpiries == 1

\* The requests that run concurrently
Requests == {1, 2}

\* Mutant of providers: the first two providers in the other order
providersSwapped == <<"zoro", "gogoanime", "animepahe">>

\* anime.ts:317
providers == <<"gogoanime", "zoro", "animepahe">>

\* The raw episode lists an upstream may send
JikanEpLists ==
    {<<>>} \cup {<<[number |-> a]>> : a \in RawNumbers}
           \cup {<<[number |-> [kind |-> "num", v |-> 1]], [number |-> b]>> : b \in RawNumbers}

\* GET /anime/<id>/episodes?page=<page>: a status, and for a 2xx the body's
\* `data` and `pagination`
PrimaryAnswers ==
    {[status |-> 429, data |-> <<>>, pagination |-> JsNull]}
        \cup {[status |-> 200, data |-> l, pagination |-> pg] :
                 l \in JikanEpLists, pg \in {JsNull, Some("upstream")}}

\* GET /anime/<id>: a status and whether the body has data with a title
InfoAnswers ==
    {[status |-> 200, title |-> TRUE], [status |-> 200, title |-> FALSE],
     [status |-> 404, title |-> FALSE]}

\* GET <consumet>/anime/<provider>/info/<slug>: a status and the episodes of the body
ProviderAnswers ==
    {[status |-> 404, episodes |-> <<>>]}
        \cup {[status |-> 200, episodes |-> l] : l \in JikanEpLists}

\* What a fetch meets when the upstream does not answer: the abort by the
\* timeout timer, or a network error
FaultEvents ==
    {[kind |-> "abort", status |-> 0, body |-> "none"],
     [kind |-> "network", status |-> 0, body |-> "none"]}

AnswerEvent(a) == [kind |-> "http", status |-> a.status, body |-> "json"]

\* The answers a source may give now: the one it gave before, or any
AnswersOf(known, all) == IF known.some THEN {known.val} ELSE all

\* anime.ts:290-299  the episodes of the primary source
JikanPrimaryEpisodes(data) ==
    [idx \in 1..Len(data) |->
        LET num == ToNum(data[idx].number)
        IN  [id |-> <<"primary", idx>>, number |-> IF num > 0 THEN num ELSE idx]]

\* anime.ts:328-346  the episodes of a fallback provider
JikanProviderEpisodes(p, arr) ==
    [idx \in 1..Len(arr) |-> [id |-> <<p, idx>>, number |-> ToNum(arr[idx].number)]]

\* anime.ts:347-358
JikanFallbackPagination(total, page) ==
    Some([page |-> page,
          has_next_page |-> total > page * perPage,
          last_visible_page |-> Max(1, CeilDiv(total, perPage)),
          items |-> [count |-> Min(perPage, total - (page - 1) * perPage),
                     total |-> total,
                     per_page |-> perPage]])

Payload(episodes, pagination) == [episodes |-> episodes, pagination |-> pagination]
\* anime.ts:368
EmptyPayload == Payload(<<>>, JsNull)

JeOk(payload) == Some([status |-> 200, payload |-> payload])
\* anime.ts:371-373
JeError == Some([status |-> 500, payload |-> EmptyPayload])

NewRequest ==
    [pc |-> "new", page |-> 1, now |-> 0, provIdx |-> 0, response |-> Null,
     queried |-> <<>>, fault |-> Null, hit |-> FALSE]

InitJikanEpisodes ==
    /\ PkIdle
    /\ KcIdle
    /\ StIdle
    /\ DvIdle
    /\ NtIdle
    /\ PgIdle
    /\ FaIdle
    /\ EpIdle
    /\ ScIdle
    /\ FjIdle
    /\ ckImpl = "handler"
    /\ clock = 0
    /\ cache = [k \in CacheKeys |-> NoEntry]
    /\ ckNow = Null
    /\ ckGot = Null
    /\ ckSets = [k \in CacheKeys |-> Null]
    /\ upstream = [primary |-> [pg \in Pages |-> Null], info |-> Null,
                   prov |-> [k \in 1..Len(providers) |-> Null]]
    /\ reqs = [r \in Requests |-> NewRequest]

\* A whole TTL passes
TtlElapses ==
    /\ ckImpl = "handler"
    /\ clock < MaxExpiries * EPISODES_TTL_MS
    /\ clock' = clock + EPISODES_TTL_MS
    /\ UNCHANGED <<cache, upstream, reqs>>
    /\ JikanEpisodesOnly

\* The request ends: its response is sent
Respond(q, response) == [q EXCEPT !.pc = "done", !.response = response]

\* anime.ts:367-370  no data: the empty payload is cached and sent
JeNoData(r, q) ==
    /\ cache' = setCached(cache, q.page, q.now, Some(EmptyPayload))
    /\ reqs' = [reqs EXCEPT ![r] = Respond(q, JeOk(EmptyPayload))]

\* anime.ts:256-264  the request arrives: page, cache key, now, and the cached
\* payload when there is a fresh one
JeBegin(r) ==
    /\ reqs[r].pc = "new"
    /\ \E page \in Pages :
         LET got == JikanCacheLookup(cache, page, clock)
             q == [reqs[r] EXCEPT !.page = page, !.now = clock]
         IN  reqs' = [reqs EXCEPT ![r] =
                        IF got # JsNull THEN Respond([q EXCEPT !.hit = TRUE], JeOk(got.val))
                        ELSE [q EXCEPT !.pc = "primary"]]
    /\ UNCHANGED <<clock, cache, upstream>>
    /\ JikanEpisodesOnly

\* The fetch of `src` by request q met ev: the history of the request
Fetched(q, src, ev) ==
    [q EXCEPT !.queried = Append(@, src),
              !.fault = IF ev \in FaultEvents THEN Some([src |-> src, kind |-> ev.kind]) ELSE @]

\* anime.ts:284-305  1) the primary source.  fetchJson is called with its
\* default of one retry; the answer is the one of its last attempt.
JePrimary(r) ==
    /\ reqs[r].pc = "primary"
    /\ \E a \in AnswersOf(upstream.primary[reqs[r].page], PrimaryAnswers) :
       \E ev \in {AnswerEvent(a)} \cup FaultEvents :
         LET q == Fetched(reqs[r], "primary", ev)
             episodes == JikanPrimaryEpisodes(a.data)
             payload == Payload(episodes, a.pagination)
         IN  IF JikanOutcome(ev) = Thrown
             THEN /\ reqs' = [reqs EXCEPT ![r] = Respond(q, JeError)]
                  /\ UNCHANGED <<cache, upstream>>
             ELSE /\ upstream' = [upstream EXCEPT !.primary[q.page] = Some(a)]
                  /\ IF IsOk(a.status)
                     THEN /\ cache' = setCached(cache, q.page, q.now, Some(payload))
                          /\ reqs' = [reqs EXCEPT ![r] =
                                         IF episodes # <<>> THEN Respond(q, JeOk(payload))
                                         ELSE [q EXCEPT !.pc = "info"]]
                     ELSE /\ reqs' = [reqs EXCEPT ![r] = [q EXCEPT !.pc = "info"]]
                          /\ UNCHANGED cache
    /\ UNCHANGED clock
    /\ JikanEpisodesOnly

\* anime.ts:307-315 (and 367-370 when there is no title)  2) the title, from
\* which the slug of the fallback providers is derived
JeInfo(r) ==
    /\ reqs[r].pc = "info"
    /\ \E a \in AnswersOf(upstream.info, InfoAnswers) :
       \E ev \in {AnswerEvent(a)} \cup FaultEvents :
         LET q == Fetched(reqs[r], "info", ev)
         IN  IF JikanOutcome(ev) = Thrown
             THEN /\ reqs' = [reqs EXCEPT ![r] = Respond(q, JeError)]
                  /\ UNCHANGED <<cache, upstream>>
             ELSE /\ upstream' = [upstream EXCEPT !.info = Some(a)]
                  /\ IF IsOk(a.status) /\ a.title
                     THEN /\ reqs' = [reqs EXCEPT ![r] = [q EXCEPT !.pc = "prov", !.provIdx = 1]]
                          /\ UNCHANGED cache
                     ELSE JeNoData(r, q)
    /\ UNCHANGED clock
    /\ JikanEpisodesOnly

\* anime.ts:318-370  one turn of the loop over the providers: fetchJson with no
\* retry; a non-empty episode array is mapped, cached and sent; after the last
\* provider the empty payload is cached and sent
JeProvider(r) ==
    /\ reqs[r].pc = "prov"
    /\ LET k == reqs[r].provIdx IN
       \E a \in AnswersOf(upstream.prov[k], ProviderAnswers) :
       \E ev \in {AnswerEvent(a)} \cup FaultEvents :
         LET q == Fetched(reqs[r], providers[k], ev)
             payload == Payload(JikanProviderEpisodes(providers[k], a.episodes),
                                JikanFallbackPagination(Len(a.episodes), q.page))
         IN  IF JikanOutcome(ev) = Thrown
             THEN /\ reqs' = [reqs EXCEPT ![r] = Respond(q, JeError)]
                  /\ UNCHANGED <<cache, upstream>>
             ELSE /\ upstream' = [upstream EXCEPT !.prov[k] = Some(a)]
                  /\ IF IsOk(a.status) /\ a.episodes # <<>>
                     THEN /\ cache' = setCached(cache, q.page, q.now, Some(payload))
                          /\ reqs' = [reqs EXCEPT ![r] = Respond(q, JeOk(payload))]
                     ELSE IF k < Len(providers)
                     THEN /\ reqs' = [reqs EXCEPT ![r] = [q EXCEPT !.provIdx = k + 1]]
                          /\ UNCHANGED cache
                     ELSE JeNoData(r, q)
    /\ UNCHANGED clock
    /\ JikanEpisodesOnly

NextJikanEpisodes ==
    \/ TtlElapses
    \/ \E r \in Requests : JeBegin(r)
    \/ \E r \in Requests : JePrimary(r)
    \/ \E r \in Requests : JeInfo(r)
    \/ \E r \in Requests : JeProvider(r)

SpecJikanEpisodes == InitJikanEpisodes /\ [][NextJikanEpisodes]_vars

(***************************************************************************)
(* The route handlers of part_000 and their upstream calls                 *)
(***************************************************************************)
\* Bound of the model: the providers of the streaming scan that carry the episode
MaxMatches == 2

Operations == {"trending", "search", "discover", "info", "episodes", "streaming", "new"}

\* How a call of gql (part_000:41-56) can end: data with content, data
\* without (no Media, no media), a non-2xx status, a network error, a body
\* with an `errors` field; or it does not end: the fetch of :46 has no signal
\* and no timer, so it stays pending while the upstream does not answer
GqlOutcomes == {"data", "empty", "non2xx", "network", "errors", "silent"}
\* How a call of fetchJson (part_000:231-243) can end
FetchOutcomes == {"data", "empty", "non2xx", "network", "timeout", "malformed"}
Failures == {"non2xx", "network", "timeout", "malformed", "errors"}

\* part_000:51-53  gql throws on a non-2xx status and on an errors field; a
\* rejected fetch or r.json() propagates
GqlThrows(outcome) == outcome \in {"non2xx", "network", "errors"}

\* part_000:236-239  fetchJson returns null on a non-2xx status and on anything thrown
FetchJsonNull(outcome) == outcome \in {"non2xx", "network", "timeout", "malformed"}

FaOk(key, filled) == Some([status |-> 200, key |-> key, filled |-> filled])
\* res.status(<code>).json({ error }): no list key
FaFail(code) == Some([status |-> code, key |-> "none", filled |-> FALSE])

Called(target, outcome) == Append(faCalls, [target |-> target, outcome |-> outcome])

\* The handler stays at its await: nothing is sent
Waiting == faPc' = "waiting" /\ UNCHANGED faResponse

InitFacade ==
    /\ PkIdle
    /\ KcIdle
    /\ StIdle
    /\ DvIdle
    /\ NtIdle
    /\ PgIdle
    /\ EpIdle
    /\ ScIdle
    /\ FjIdle
    /\ CkIdle
    /\ JeIdle
    /\ faOp \in Operations
    /\ faPc = "start"
    /\ faCalls = <<>>
    /\ faIds = Null
    /\ faResponse = Null

\* part_000:97-117, :435-456, :299-351  getTrending, getNewReleases, getDiscover
\* and, with a query, getSearch (:123-144): one gql call, results from its media
FaListing ==
    /\ faPc = "start"
    /\ faOp \in {"trending", "new", "discover", "search"}
    /\ \E outcome \in GqlOutcomes :
         /\ faCalls' = Called("gql", outcome)
         /\ IF outcome = "silent" THEN Waiting
            ELSE /\ faResponse' = IF GqlThrows(outcome) THEN FaFail(500)
                                   ELSE FaOk("results", outcome = "data")
                 /\ faPc' = "done"
    /\ UNCHANGED <<faOp, faIds>>
    /\ FacadeOnly

\* part_000:121-122  getSearch without a query
FaSearchEmptyQuery ==
    /\ faPc = "start"
    /\ faOp = "search"
    /\ faResponse' = FaOk("results", FALSE)
    /\ faPc' = "done"
    /\ UNCHANGED <<faOp, faCalls, faIds>>
    /\ FacadeOnly

\* Mutant of NoIds: getInfo answers an unresolved id with its internal error
NoIdsInternalError ==
    CASE faOp = "info" -> FaFail(500)
      [] faOp = "episodes" -> FaOk("episodes", FALSE)
      [] OTHER -> FaOk("links", FALSE)

\* What the handler does when getAniIdsByMalOrAni found no id:
\* part_000:169 (404), :252 (empty episodes), :395 (empty links)
NoIds ==
    CASE faOp = "info" -> FaFail(404)
      [] faOp = "episodes" -> FaOk("episodes", FALSE)
      [] OTHER -> FaOk("links", FALSE)

\* part_000:79-95  what getAniIdsByMalOrAni returns: whether the input was a
\* finite number, and the title whose ids it returns: the one found by MAL id,
\* the one found by AniList id, or none ({id: null, idMal: null})
ResolvedIds(finite, title) == Some([finite |-> finite, title |-> title])

\* part_000:79-95  getAniIdsByMalOrAni: the id is not a number, or the lookup
\* by MAL id and then by AniList id, each with its exception swallowed
FaResolveIds ==
    /\ faPc \in {"start", "byId"}
    /\ faOp \in {"info", "episodes", "streaming"}
    /\ \/ /\ faPc = "start"
          /\ faIds' = ResolvedIds(FALSE, "none")
          /\ faResponse' = NoIds
          /\ faPc' = "done"
          /\ UNCHANGED faCalls
       \/ \E outcome \in GqlOutcomes :
            /\ faCalls' = Called(IF faPc = "start" THEN "gql byMal" ELSE "gql byId", outcome)
            /\ IF outcome = "silent" THEN Waiting /\ UNCHANGED faIds
               ELSE IF outcome = "data"
               THEN /\ faIds' = ResolvedIds(TRUE, IF faPc = "start" THEN "byMal" ELSE "byId")
                    /\ faPc' = "main"
                    /\ UNCHANGED faResponse
               ELSE IF faPc = "start" THEN faPc' = "byId" /\ UNCHANGED <<faIds, faResponse>>
               ELSE /\ faIds' = ResolvedIds(TRUE, "none")
                    /\ faPc' = "done"
                    /\ faResponse' = NoIds
    /\ UNCHANGED faOp
    /\ FacadeOnly

\* part_000:171-187  getInfo: the media record; a movie has no seasons
FaInfoMedia ==
    /\ faPc = "main"
    /\ faOp = "info"
    /\ \E outcome \in GqlOutcomes :
         /\ faCalls' = Called("gql media", outcome)
         /\ \/ /\ outcome = "silent"
               /\ Waiting
            \/ /\ GqlThrows(outcome)
               /\ faResponse' = FaFail(500)
               /\ faPc' = "done"
            \/ /\ outcome = "empty"
               /\ faResponse' = FaFail(404)
               /\ faPc' = "done"
            \/ /\ outcome = "data"
               /\ \/ faResponse' = FaOk("seasons", FALSE) /\ faPc' = "done"
                  \/ UNCHANGED faResponse /\ faPc' = "relations"
    /\ UNCHANGED <<faOp, faIds>>
    /\ FacadeOnly

\* part_000:190-227  getInfo: the start record of the season chain; the walk
\* that follows it is the subject of SpecSeasons
FaInfoRelations ==
    /\ faPc = "relations"
    /\ \E outcome \in GqlOutcomes :
         /\ faCalls' = Called("gql relations", outcome)
         /\ IF outcome = "silent" THEN Waiting
            ELSE /\ faResponse' = IF GqlThrows(outcome) THEN FaFail(500)
                                   ELSE FaOk("seasons", outcome = "data")
                 /\ faPc' = "done"
    /\ UNCHANGED <<faOp, faIds>>
    /\ FacadeOnly

\* part_000:255-293  getEpisodes: the provider array, or null from fetchJson
FaEpisodes ==
    /\ faPc = "main"
    /\ faOp = "episodes"
    /\ \E outcome \in FetchOutcomes :
         /\ faCalls' = Called("fetchJson episodes", outcome)
         /\ faResponse' = FaOk("episodes", outcome = "data")
    /\ faPc' = "done"
    /\ UNCHANGED <<faOp, faIds>>
    /\ FacadeOnly

\* part_000:397-402  getStreaming: the provider array, or null from fetchJson
FaStreaming ==
    /\ faPc = "main"
    /\ faOp = "streaming"
    /\ \E outcome \in FetchOutcomes :
         /\ faCalls' = Called("fetchJson episodes", outcome)
         /\ IF FetchJsonNull(outcome)
            THEN faResponse' = FaOk("links", FALSE) /\ faPc' = "done"
            ELSE UNCHANGED faResponse /\ faPc' = "sources"
    /\ UNCHANGED <<faOp, faIds>>
    /\ FacadeOnly

SourcesCalls == Len(SelectSeq(faCalls, LAMBDA c : c.target = "fetchJson sources"))

\* part_000:404-429  getStreaming: the scan of the providers.  No further
\* provider carries the episode: the links gathered (none) are sent.  Or the
\* next one does: its sources are fetched, and links found end the scan.
FaStreamingScan ==
    /\ faPc = "sources"
    /\ \/ /\ faResponse' = FaOk("links", FALSE)
          /\ faPc' = "done"
          /\ UNCHANGED faCalls
       \/ /\ SourcesCalls < MaxMatches
          /\ \E outcome \in FetchOutcomes :
               /\ faCalls' = Called("fetchJson sources", outcome)
               /\ IF outcome = "data"
                  THEN faResponse' = FaOk("links", TRUE) /\ faPc' = "done"
                  ELSE UNCHANGED <<faResponse, faPc>>
    /\ UNCHANGED <<faOp, faIds>>
    /\ FacadeOnly

NextFacade ==
    \/ FaListing
    \/ FaSearchEmptyQuery
    \/ FaResolveIds
    \/ FaInfoMedia
    \/ FaInfoRelations
    \/ FaEpisodes
    \/ FaStreaming
    \/ FaStreamingScan

SpecFacade == InitFacade /\ [][NextFacade]_vars

\* Timers fire and answers that arrived are handled: a handler that can go on does
SpecFacadeFair == SpecFacade /\ WF_vars(NextFacade)

(***************************************************************************)
(* normalizeBaseTitle (anime.ts:12-22, part_000:20-30; the same text)      *)
(*                                                                         *)
(* A title is the sequence of its words, which stands for the string of    *)
(* the words joined by single blanks.  On such strings each of the seven   *)
(* replacements is decided by the words alone, and each removes the blanks *)
(* in front of what it removes, so the two trim() calls change nothing.    *)
(* The patterns ignore case; the words below are one spelling of each.     *)
(***************************************************************************)
MaxTitleLen == 3
MaxPasses == 2

\* (Season|Cour|Part)
Keywords == {"Season", "Cour", "Part"}
\* \d+ as a word of its own
Digits == {"2"}
\* (\d+)(st|nd|rd|th)
Ordinals == {"2nd"}
\* (?:II|III|IV|V|VI|VII|VIII|IX|X)
Romans == {"II"}
\* The words of a title: a plain word, the punctuation the patterns name, and
\* one word of each class
Words == {"Foo", "-", "(", ")", "Final"} \cup Keywords \cup Digits \cup Ordinals \cup Romans

\* The title of the spec's scenario
ScenarioTitle == <<"Attack", "on", "Titan", "Final", "Season", "Part", "2">>

\* The titles given to normalizeBaseTitle: every title of up to MaxTitleLen
\* words, and the title of the scenario
Titles == UNION {[1..n -> Words] : n \in 0..MaxTitleLen} \cup {ScenarioTitle}

Prefix(t, n) == SubSeq(t, 1, n)

\* String.prototype.replace with a pattern that ends in .*$ : the leftmost
\* place the pattern begins at, and everything from there on, is removed
CutAt(t, hits) ==
    IF hits = {} THEN t
    ELSE Prefix(t, (CHOOSE i \in hits : \A j \in hits : i <= j) - 1)

\* anime.ts:14  s.replace(/\s*-\s*(Season|Cour|Part)\s*\d+$/i, "")
StripDashMarker(t) ==
    LET n == Len(t)
    IN  IF n >= 3 /\ t[n - 2] = "-" /\ t[n - 1] \in Keywords /\ t[n] \in Digits
        THEN Prefix(t, n - 3) ELSE t

\* anime.ts:15  s.replace(/\s*\(\s*(Season|Cour|Part)\s*\d+\s*\)$/i, "")
StripParenMarker(t) ==
    LET n == Len(t)
    IN  IF /\ n >= 4
           /\ t[n - 3] = "(" /\ t[n - 2] \in Keywords /\ t[n - 1] \in Digits /\ t[n] = ")"
        THEN Prefix(t, n - 4) ELSE t

\* anime.ts:16  s.replace(/\s*\b(\d+)(st|nd|rd|th)\s+Season\b.*$/i, "")
CutOrdinalSeason(t) ==
    CutAt(t, {i \in 1..(Len(t) - 1) : t[i] \in Ordinals /\ t[i + 1] = "Season"})

\* anime.ts:17  s.replace(/\s*\bSeason\s+\d+(?:\s*Part\s*\d+)?\b.*$/i, "")
CutSeasonNumber(t) ==
    CutAt(t, {i \in 1..(Len(t) - 1) : t[i] = "Season" /\ t[i + 1] \in Digits})

\* Mutant of CutFinalSeason: "Final Season" removed only where the title ends with it
CutFinalSeasonAtEnd(t) ==
    LET n == Len(t)
    IN  IF n >= 2 /\ t[n - 1] = "Final" /\ t[n] = "Season" THEN SubSeq(t, 1, n - 2) ELSE t

\* anime.ts:18  s.replace(/\s*\bFinal Season(?:\s*Part\s*\d+)?\b.*$/i, "")
CutFinalSeason(t) ==
    CutAt(t, {i \in 1..(Len(t) - 1) : t[i] = "Final" /\ t[i + 1] = "Season"})

\* anime.ts:19  s.replace(/\s+(?:II|III|IV|V|VI|VII|VIII|IX|X)$/i, "")
\* \s+ : the numeral goes only when a word stands before it
StripRoman(t) ==
    LET n == Len(t)
    IN  IF n >= 2 /\ t[n] \in Romans THEN Prefix(t, n - 1) ELSE t

\* anime.ts:20  s.replace(/\s+\d+$/i, "")
StripNumber(t) ==
    LET n == Len(t)
    IN  IF n >= 2 /\ t[n] \in Digits THEN Prefix(t, n - 1) ELSE t

\* anime.ts:12-22: the seven replacements, once each, in this order
normalizeBaseTitle(title) ==
    StripNumber(StripRoman(CutFinalSeason(CutSeasonNumber(CutOrdinalSeason(
        StripParenMarker(StripDashMarker(title)))))))

InitTitles ==
    /\ PkIdle
    /\ KcIdle
    /\ StIdle
    /\ DvIdle
    /\ PgIdle
    /\ EpIdle
    /\ ScIdle
    /\ FjIdle
    /\ CkIdle
    /\ JeIdle
    /\ FaIdle
    /\ rawTitle \in Titles
    /\ passes = <<>>

\* One call of normalizeBaseTitle: on the raw title first, then on what the
\* call before returned
NormalizeTitle ==
    /\ Len(passes) < MaxPasses
    /\ passes' = Append(passes, normalizeBaseTitle(IF passes = <<>> THEN rawTitle
                                                    ELSE passes[Len(passes)]))
    /\ UNCHANGED rawTitle
    /\ TitlesOnly

NextTitles == NormalizeTitle

SpecTitles == InitTitles /\ [][NextTitles]_vars

(***************************************************************************)
(* The pagination object of getEpisodes                                    *)
(***************************************************************************)
MaxTotal == 49
MaxPage == 3

\* A full list of `total` episodes, numbered from 1
EpisodeList(total) == [i \in 1..total |-> [id |-> <<1, i>>, number |-> i]]

\* part_000:283 total is list.length, any length from 0; anime.ts:327 and :348
\* build the object only from a provider array with arr.length > 0
InitPaginate ==
    /\ PkIdle
    /\ KcIdle
    /\ StIdle
    /\ DvIdle
    /\ NtIdle
    /\ EpIdle
    /\ ScIdle
    /\ FjIdle
    /\ CkIdle
    /\ JeIdle
    /\ FaIdle
    /\ pgImpl \in {"anilist", "jikan"}
    /\ pgTotal \in (IF pgImpl = "jikan" THEN 1 ELSE 0)..MaxTotal
    /\ pgPage \in 1..MaxPage
    /\ pgResult = Null
    /\ pgServed = [p \in 1..MaxPage |-> Null]

\* anime.ts:326-327  the episode array of a fallback provider, `total` elements
ProviderArray(total) == [i \in 1..total |-> [number |-> [kind |-> "num", v |-> i]]]

\* part_000:283-293  the list is sliced to the page, the object is built from
\* the length of the full list, both go into the response
AniListPagination ==
    /\ pgImpl = "anilist"
    /\ pgResult = Null
    /\ LET payload == Paginate(EpisodeList(pgTotal), pgPage)
       IN  /\ pgResult' = payload.pagination
           /\ pgServed' = [pgServed EXCEPT ![pgPage] = Some(payload.episodes)]
    /\ UNCHANGED <<pgImpl, pgTotal, pgPage>>
    /\ PaginateOnly

\* anime.ts:328-361  every element of the provider array becomes an episode of
\* the response (arr.map, no slice); the object is built from arr.length
JikanPagination ==
    /\ pgImpl = "jikan"
    /\ pgResult = Null
    /\ pgResult' = JikanFallbackPagination(pgTotal, pgPage)
    /\ pgServed' = [pgServed EXCEPT ![pgPage] =
                        Some(JikanProviderEpisodes("gogoanime", ProviderArray(pgTotal)))]
    /\ UNCHANGED <<pgImpl, pgTotal, pgPage>>
    /\ PaginateOnly

\* part_000:248, anime.ts:258  the next request asks for another page of the
\* same title, whose list has not changed
RequestPage ==
    /\ pgImpl # "none"
    /\ pgResult # Null
    /\ \E page \in 1..MaxPage :
          /\ pgServed[page] = Null
          /\ pgPage' = page
    /\ pgResult' = Null
    /\ UNCHANGED <<pgImpl, pgTotal, pgServed>>
    /\ PaginateOnly

NextPaginate == AniListPagination \/ JikanPagination \/ RequestPage

SpecPaginate == InitPaginate /\ [][NextPaginate]_vars

(***************************************************************************)
(* pickRelation and pickEdge: the choice among the candidates of a relation*)
(***************************************************************************)
MaxCandidates == 3

\* The formats a related title may carry
PickFormats == {"TV", "ONA", "MOVIE"}
RelationTypes == {"PREQUEL", "SEQUEL"}

\* The relations of a node, in the order the upstream lists them
RelationLists ==
    UNION {[1..n -> [relationType : RelationTypes, format : PickFormats]] :
              n \in 0..MaxCandidates}

\* part_000:151  node.relations.edges; a related title is named by its place
PickEdges(list) ==
    [k \in 1..Len(list) |-> [relationType |-> list[k].relationType,
                              node |-> [id |-> k, format |-> list[k].format]]]

\* anime.ts:124-127  node.relations.find(r => r.relation === "Prequel"): the
\* relation of the type walked with its entries, or nothing when the node has
\* no relation of that type
PickRel(list, type) ==
    LET idx == SelectSeq([k \in 1..Len(list) |-> k], LAMBDA k : list[k].relationType = type)
    IN  IF idx = <<>> THEN Null
        ELSE Some([entry |-> [k \in 1..Len(idx) |->
                                 [mal_id |-> idx[k], type |-> list[idx[k]].format]]])

InitPick ==
    /\ KcIdle
    /\ StIdle
    /\ DvIdle
    /\ NtIdle
    /\ PgIdle
    /\ EpIdle
    /\ ScIdle
    /\ FjIdle
    /\ CkIdle
    /\ JeIdle
    /\ FaIdle
    /\ pkImpl \in {"jikan", "anilist"}
    /\ pkType \in RelationTypes
    /\ pkList \in RelationLists
    /\ pkPicked = Null

\* anime.ts:128 and :148  pickRelation(preRel), pickRelation(seqRel)
JikanPick ==
    /\ pkImpl = "jikan"
    /\ pkPicked = Null
    /\ pkPicked' = Some(pickRelation(PickRel(pkList, pkType)))
    /\ UNCHANGED <<pkImpl, pkType, pkList>>
    /\ PickOnly

\* part_000:197 and :208  pickEdge(node.relations?.edges, "PREQUEL" | "SEQUEL")
AniListPick ==
    /\ pkImpl = "anilist"
    /\ pkPicked = Null
    /\ pkPicked' = Some(pickEdge(PickEdges(pkList), pkType))
    /\ UNCHANGED <<pkImpl, pkType, pkList>>
    /\ PickOnly

NextPick == JikanPick \/ AniListPick

SpecPick == InitPick /\ [][NextPick]_vars

(***************************************************************************)
(* The cache keys                                                          *)
(*                                                                         *)
(* A key is a string, here the sequence of its characters; the fixed       *)
(* prefixes "gql:" and "anify:episodes:" are one element each.             *)
(***************************************************************************)
\* Bounds of the model: the length of an id, a query or a variables text,
\* and the number of entries a cache holds
MaxKeyLen == 2
MaxStores == 2

Strings(alphabet) == UNION {[1..n -> alphabet] : n \in 1..MaxKeyLen}

\* Template literals and String() write a number in decimal
DecimalDigits == <<"0", "1", "2", "3", "4", "5", "6", "7", "8", "9">>
RECURSIVE Decimal(_)
Decimal(n) ==
    IF n < 10 THEN <<DecimalDigits[n + 1]>>
    ELSE Decimal(n \div 10) \o <<DecimalDigits[(n % 10) + 1]>>

\* Buffer.from(query).toString("base64"): every group of the text becomes a
\* group of letters, digits, "+", "/" and "=", never a colon
Base64(query) == [k \in 1..Len(query) |-> "cQ=="]

\* Mutant of episodesCacheKey: id and page written one after the other
episodesCacheKeyNoSeparator(id, page) == id \o Decimal(page)

\* anime.ts:259  `${id}:${page}`
episodesCacheKey(id, page) == id \o <<":">> \o Decimal(page)

\* part_000:43  `gql:${base64 of query}::${JSON.stringify(variables)}`
gqlKey(query, variables) == <<"gql:">> \o Base64(query) \o <<":", ":">> \o variables

\* part_000:255  `anify:episodes:${ids.id}`
anifyKey(id) == <<"anify:episodes:">> \o Decimal(id)

\* The pages and the numeric ids of the requests
KeyNumbers == {1, 11}

\* The request-shaping parameters.  anime.ts:257-258: the id is the route
\* parameter as sent (any text without a slash, so it may hold a colon), the
\* page a number >= 1.  part_000:42: the query text and the JSON text of the
\* variables, which holds colons.  part_000:251: the resolved AniList id.
EpisodesParams ==
    [kind : {"episodes"}, a : Strings({"1", ":"}), b : {Decimal(n) : n \in KeyNumbers}]
GqlParams == [kind : {"gql"}, a : Strings({"q"}), b : Strings({"v", ":"})]
AnifyParams == [kind : {"anify"}, a : {Decimal(n) : n \in KeyNumbers}, b : {<<>>}]

ParamsOf(which) == IF which = "episodes" THEN EpisodesParams ELSE GqlParams \cup AnifyParams

\* The number a decimal text stands for
RECURSIVE NumberOf(_)
NumberOf(text) ==
    IF text = <<>> THEN 0
    ELSE 10 * NumberOf(SubSeq(text, 1, Len(text) - 1))
            + (CHOOSE d \in 0..9 : DecimalDigits[d + 1] = text[Len(text)])

\* The key a request with parameters p reads and writes
KeyOf(p) ==
    CASE p.kind = "episodes" -> episodesCacheKey(p.a, NumberOf(p.b))
      [] p.kind = "gql" -> gqlKey(p.a, p.b)
      [] OTHER -> anifyKey(NumberOf(p.a))

InitKeys ==
    /\ PkIdle
    /\ StIdle
    /\ DvIdle
    /\ NtIdle
    /\ PgIdle
    /\ EpIdle
    /\ ScIdle
    /\ FjIdle
    /\ CkIdle
    /\ JeIdle
    /\ FaIdle
    /\ kcImpl \in {"episodes", "anilist"}
    /\ kcCache = {}
    /\ kcServed = Null

\* anime.ts:302, :360, :369 / part_000:54, :259  a request stores its result
\* under its key; an entry with that key is replaced
KeyStore ==
    /\ kcImpl # "none"
    /\ Cardinality(kcCache) < MaxStores
    /\ \E p \in ParamsOf(kcImpl) :
         kcCache' = {e \in kcCache : e.key # KeyOf(p)} \cup {[key |-> KeyOf(p), by |-> p]}
    /\ UNCHANGED <<kcImpl, kcServed>>
    /\ KeysOnly

\* anime.ts:261-264 / part_000:44-45, :256  a request finds an entry under its
\* key and is answered from it
KeyServe ==
    /\ kcImpl # "none"
    /\ \E p \in ParamsOf(kcImpl) : \E e \in kcCache :
         /\ e.key = KeyOf(p)
         /\ kcServed' = Some([to |-> p, by |-> e.by])
    /\ UNCHANGED <<kcImpl, kcCache>>
    /\ KeysOnly

NextKeys == KeyStore \/ KeyServe

SpecKeys == InitKeys /\ [][NextKeys]_vars

(***************************************************************************)
(* The whole model: one of the handlers runs                               *)
(***************************************************************************)
(***************************************************************************)
(* getStreaming (part_000:389-433): the scan of the providers              *)
(***************************************************************************)
MaxStreamProviders == 2

\* part_000:391  epNum
EpNums == {1, 2}

\* part_000:405  String(prov?.providerId || ""): an entry may lack its identifier
StreamProviderIds == ProviderIds \cup {""}

\* The episode lists a provider entry may carry: per episode its raw number
\* and whether it has an id
StreamEpisodeLists ==
    {<<>>,
     <<[number |-> [kind |-> "num", v |-> 1], hasId |-> TRUE]>>,
     <<[number |-> [kind |-> "num", v |-> 1], hasId |-> FALSE]>>,
     <<[number |-> [kind |-> "num", v |-> 1], hasId |-> FALSE],
       [number |-> [kind |-> "num", v |-> 1], hasId |-> TRUE]>>,
     <<[number |-> [kind |-> "str", v |-> 1], hasId |-> TRUE],
       [number |-> [kind |-> "num", v |-> 2], hasId |-> TRUE]>>}

\* part_000:408  eps.find(e => number of e === epNum): the first such episode
FindMatch(eps, epNum) ==
    LET hits == SelectSeq(eps, LAMBDA e : ToNum(e.number) = epNum)
    IN  IF hits = <<>> THEN Null ELSE Some(hits[1])

\* part_000:406-409  the entry is passed over: no identifier, no episode with
\* the number, or that episode has no id
PassedOver(prov, epNum) ==
    LET match == FindMatch(prov.episodes, epNum)
    IN  IF prov.providerId = "" THEN TRUE
        ELSE IF match = Null THEN TRUE
        ELSE ~ match.val.hasId

\* What the sources lookup of part_000:418 may give: null (fetchJson failed),
\* {sources: []}, {sources: [one entry with url]}, {sources: [two with url]},
\* {sources: [an entry without url]}, {sources: <not an array>, url}, and
\* {url} alone
SourceAnswers == {"null", "empty", "one", "two", "nourl", "object", "bare"}

\* part_000:419-424  the links the answer adds, each under the provider's name
LinksOf(providerId, answer) ==
    CASE answer = "one" -> <<[name |-> providerId, url |-> 1]>>
      [] answer = "two" -> <<[name |-> providerId, url |-> 1], [name |-> providerId, url |-> 2]>>
      [] answer = "object" -> <<[name |-> providerId, url |-> 0]>>
      [] OTHER -> <<>>

InitStreaming ==
    /\ PkIdle
    /\ KcIdle
    /\ DvIdle
    /\ NtIdle
    /\ PgIdle
    /\ EpIdle
    /\ ScIdle
    /\ FjIdle
    /\ CkIdle
    /\ JeIdle
    /\ FaIdle
    /\ stPc = "start"
    /\ stEpNum \in EpNums
    /\ stProviders = <<>>
    /\ stIdx = 0
    /\ stQueried = <<>>
    /\ stLinks = <<>>
    /\ stResponse = Null

\* The episode source lists one more provider entry for the title
StAddProvider ==
    /\ stPc = "start"
    /\ Len(stProviders) < MaxStreamProviders
    /\ \E id \in StreamProviderIds, eps \in StreamEpisodeLists :
          stProviders' = Append(stProviders, [providerId |-> id, episodes |-> eps])
    /\ UNCHANGED <<stPc, stEpNum, stIdx, stQueried, stLinks, stResponse>>
    /\ StreamingOnly

\* part_000:394-398  the id is not resolved, or the episode lookup gives null
StNoData ==
    /\ stPc = "start"
    /\ stResponse' = Some([status |-> 200, links |-> <<>>])
    /\ stPc' = "done"
    /\ UNCHANGED <<stEpNum, stProviders, stIdx, stQueried, stLinks>>
    /\ StreamingOnly

\* part_000:399-404  the provider array is sorted in place and the loop starts
StSort ==
    /\ stPc = "start"
    /\ stProviders' = SortProviders(stProviders)
    /\ stIdx' = 1
    /\ stPc' = "scan"
    /\ UNCHANGED <<stEpNum, stQueried, stLinks, stResponse>>
    /\ StreamingOnly

\* part_000:405-409  continue
StSkip ==
    /\ stPc = "scan"
    /\ stIdx <= Len(stProviders)
    /\ PassedOver(stProviders[stIdx], stEpNum)
    /\ stIdx' = stIdx + 1
    /\ UNCHANGED <<stPc, stEpNum, stProviders, stQueried, stLinks, stResponse>>
    /\ StreamingOnly

\* part_000:411-426  the sources of the matching episode are looked up; links
\* found end the loop
StSources ==
    /\ stPc = "scan"
    /\ stIdx <= Len(stProviders)
    /\ ~ PassedOver(stProviders[stIdx], stEpNum)
    /\ \E answer \in SourceAnswers :
          LET links == stLinks \o LinksOf(stProviders[stIdx].providerId, answer)
          IN  /\ stQueried' = Append(stQueried, [pos |-> stIdx, answer |-> answer])
              /\ stLinks' = links
              /\ IF Len(links) > 0
                 THEN stPc' = "respond" /\ UNCHANGED stIdx
                 ELSE stIdx' = stIdx + 1 /\ UNCHANGED stPc
    /\ UNCHANGED <<stEpNum, stProviders, stResponse>>
    /\ StreamingOnly

\* part_000:429  res.json({ links }), after the break or at the end of the array
StRespond ==
    /\ \/ stPc = "respond"
       \/ stPc = "scan" /\ stIdx > Len(stProviders)
    /\ stResponse' = Some([status |-> 200, links |-> stLinks])
    /\ stPc' = "done"
    /\ UNCHANGED <<stEpNum, stProviders, stIdx, stQueried, stLinks>>
    /\ StreamingOnly

NextStreaming ==
    \/ StAddProvider
    \/ StNoData
    \/ StSort
    \/ StSkip
    \/ StSources
    \/ StRespond

SpecStreaming == InitStreaming /\ [][NextStreaming]_vars

(***************************************************************************)
(* The Discover page (part_001): load() and the handlers that call it      *)
(***************************************************************************)
MaxLoads == 4
MaxResultPage == 2

\* What the search box may hold
SearchTexts == {"", "x"}

\* The genre selected: none, or one of the genre buttons
GenreNames == {"", "Action"}

\* part_001:40-44  the query of a load(): q and the genre as they are in the
\* render that calls it
Query(q, genre) == [q |-> q, genre |-> genre]

\* The results of one page of a query, as the server sends them
ResultsOf(query, p) == <<[query |-> query, page |-> p]>>

\* The query whose results are displayed first
Displayed == dvData.val.results[1].query

\* part_001:37-44  load(p, append): loading is set and fetchDiscover is called
Load(q, genre, p, append) ==
    /\ dvIssued < MaxLoads
    /\ dvLoading' = TRUE
    /\ dvIssued' = dvIssued + 1
    /\ dvInflight' = dvInflight \cup
          {[n |-> dvIssued + 1, query |-> Query(q, genre), p |-> p, append |-> append]}
    /\ dvOverlap' = (dvOverlap \/ dvInflight # {})
    /\ dvStale' = IF append /\ dvData.some THEN dvStale \/ Displayed # Query(q, genre)
                  ELSE dvStale

\* part_001:8-15  the state of the first render
InitDiscover ==
    /\ PkIdle
    /\ KcIdle
    /\ StIdle
    /\ NtIdle
    /\ PgIdle
    /\ EpIdle
    /\ ScIdle
    /\ FjIdle
    /\ CkIdle
    /\ JeIdle
    /\ FaIdle
    /\ dvQ = ""
    /\ dvGenre \in GenreNames
    /\ dvPage = 1
    /\ dvLoading = TRUE
    /\ dvData = Null
    /\ dvInflight = {}
    /\ dvIssued = 0
    /\ dvOverlap = FALSE
    /\ dvStale = FALSE

\* part_001:67-70  the effect of the first render: load(1, false)
DvMount ==
    /\ dvPage > 0
    /\ dvIssued = 0
    /\ Load(dvQ, dvGenre, 1, FALSE)
    /\ UNCHANGED <<dvQ, dvGenre, dvPage, dvData>>
    /\ DiscoverOnly

\* part_001:85  onChange of the search box: setQ, no load
DvType ==
    /\ dvIssued > 0
    /\ \E text \in SearchTexts \ {dvQ} : dvQ' = text
    /\ UNCHANGED <<dvGenre, dvPage, dvLoading, dvData, dvInflight, dvIssued, dvOverlap, dvStale>>
    /\ DiscoverOnly

\* part_001:78-81  onSubmit of the search form: load(1, false)
DvSubmit ==
    /\ dvIssued > 0
    /\ Load(dvQ, dvGenre, 1, FALSE)
    /\ UNCHANGED <<dvQ, dvGenre, dvPage, dvData>>
    /\ DiscoverOnly

\* part_001:102-104 and :67-70  a genre button: setGenre, and the effect on
\* selectedGenreValid calls load(1, false) in the render with the new genre
DvGenreClick ==
    /\ dvIssued > 0
    /\ \E g \in GenreNames \ {dvGenre} :
          /\ dvGenre' = g
          /\ Load(dvQ, g, 1, FALSE)
    /\ UNCHANGED <<dvQ, dvPage, dvData>>
    /\ DiscoverOnly

\* part_001:125-137  'Load more', shown when there are results and a next
\* page, disabled while loading: load(page + 1, true)
DvLoadMore ==
    /\ dvData.some
    /\ dvData.val.results # <<>>
    /\ dvData.val.pagination.has_next_page
    /\ ~ dvLoading
    /\ Load(dvQ, dvGenre, dvPage + 1, TRUE)
    /\ UNCHANGED <<dvQ, dvGenre, dvPage, dvData>>
    /\ DiscoverOnly

\* part_001:45-55  a fetchDiscover resolves: setData, setPage, and loading is
\* reset in the finally
DvResolved ==
    /\ \E r \in dvInflight :
          LET resp == [results |-> ResultsOf(r.query, r.p),
                       pagination |-> [has_next_page |-> r.p < MaxResultPage]]
          IN  /\ dvData' = IF r.append /\ dvData.some
                           THEN Some([results |-> dvData.val.results \o resp.results,
                                      pagination |-> resp.pagination])
                           ELSE Some(resp)
              /\ dvPage' = r.p
              /\ dvInflight' = dvInflight \ {r}
    /\ dvLoading' = FALSE
    /\ UNCHANGED <<dvQ, dvGenre, dvIssued, dvOverlap, dvStale>>
    /\ DiscoverOnly

\* part_001:53-55  a fetchDiscover rejects: only the finally runs
DvRejected ==
    /\ \E r \in dvInflight : dvInflight' = dvInflight \ {r}
    /\ dvLoading' = FALSE
    /\ UNCHANGED <<dvQ, dvGenre, dvPage, dvData, dvIssued, dvOverlap, dvStale>>
    /\ DiscoverOnly

NextDiscover ==
    \/ DvMount
    \/ DvType
    \/ DvSubmit
    \/ DvGenreClick
    \/ DvLoadMore
    \/ DvResolved
    \/ DvRejected

SpecDiscover == InitDiscover /\ [][NextDiscover]_vars

Init ==
    \/ InitEpisodes
    \/ InitSeasons
    \/ InitFetch
    \/ InitCache
    \/ InitJikanEpisodes
    \/ InitFacade
    \/ InitTitles
    \/ InitPaginate
    \/ InitPick
    \/ InitKeys
    \/ InitStreaming
    \/ InitDiscover

Next ==
    \/ NextEpisodes
    \/ NextSeasons
    \/ NextFetch
    \/ NextCache
    \/ NextJikanEpisodes
    \/ NextFacade
    \/ NextTitles
    \/ NextPaginate
    \/ NextPick
    \/ NextKeys
    \/ NextStreaming
    \/ NextDiscover

Spec == Init /\ [][Next]_vars

(***************************************************************************)
(* Claims about the episode reconciler                                     *)
(***************************************************************************)
\* The rank the preference order gives a provider: its place in the list, and
\* after every listed provider when it is not in the list
PreferenceRank(p) ==
    IF IndexOf(preferred, p.providerId) = -1 THEN Len(preferred)
    ELSE IndexOf(preferred, p.providerId)

Reconciled == epPc = "done" /\ epData.some

\* C1: whatever the provider lists hold (any order, numbers repeated within
\* and across providers), the full reconciled list of getEpisodes is strictly
\* ascending by episode number, so no number occurs twice.
C1_StrictlyAscending ==
    Reconciled =>
        \A i, j \in 1..Len(epList) : i < j => epList[i].number < epList[j].number

\* C1 witness: three raw episodes, the first with a larger number than a later
\* one and one number carried twice, reconciled to two records.
C1_Witness ==
    /\ Reconciled
    /\ Len(anifyData) = 2
    /\ Len(anifyData[1].episodes) = 2
    /\ Len(anifyData[2].episodes) = 1
    /\ ToNum(anifyData[1].episodes[1].number) = 2
    /\ ToNum(anifyData[1].episodes[2].number) = 1
    /\ ToNum(anifyData[2].episodes[1].number) = 2
    /\ Len(epList) = 2

\* C2: first-seen-wins.  Every record of the reconciled list comes from the
\* provider that ranks highest in the preference order among the providers
\* carrying its number (the first such episode of that provider); no provider
\* of lower preference supplies it.
C2_FirstSeenWins ==
    Reconciled =>
        \A k \in 1..Len(epList) :
            LET e == epList[k]
                i == e.id[1]
                j == e.id[2]
            IN  /\ ToNum(anifyData[i].episodes[j].number) = e.number
                /\ \A i2 \in 1..Len(anifyData) :
                     \A j2 \in 1..Len(anifyData[i2].episodes) :
                        ToNum(anifyData[i2].episodes[j2].number) = e.number =>
                            \/ PreferenceRank(anifyData[i]) < PreferenceRank(anifyData[i2])
                            \/ /\ PreferenceRank(anifyData[i]) = PreferenceRank(anifyData[i2])
                               /\ (i < i2 \/ (i = i2 /\ j <= j2))

\* C3: in the order in which the providers are processed, listed providers
\* come in the order of the preference list and every unlisted provider comes
\* after all listed ones, equal ranks keeping their original order.
C3_UnknownProvidersLast ==
    Reconciled =>
        /\ Len(epData.val) = Len(anifyData)
        /\ \A a, b \in 1..Len(epData.val) :
              a < b => PreferenceRank(epData.val[a]) <= PreferenceRank(epData.val[b])

(***************************************************************************)
(* Claims about the season-chain walk                                      *)
(***************************************************************************)
Ids(seq) == [k \in 1..Len(seq) |-> seq[k].id]
Count(seq, x) == Cardinality({k \in 1..Len(seq) : seq[k] = x})
PushedIn(dir) == Ids(SelectSeq(pushed, LAMBDA q : q.dir = dir))
SeasonsSent == scPc = "done" /\ infoResponse.val.status = 200
WalkFailures == {f \in failedAt : f.dir # "start"}

\* The longest chain the claim allows: 8 back, 8 forward and the start
ChainLimit == 8 + 8 + 1

\* C4: for every relation graph, cycles and self-loops included, the walk
\* terminates, never accepts a candidate whose id is already in seen, and
\* yields a chain of at most 17 elements.
C4_WalkBounded ==
    /\ [][/\ Len(pushed') > Len(pushed) => pushed'[Len(pushed')].id \notin seen
          /\ Len(chain') <= ChainLimit]_vars
    /\ <>(scPc = "done")

\* C4 witness: a walk over a graph with more than 8 prequels and 8 sequels that
\* ended with the full chain of 17.
C4_Witness == scPc = "done" /\ impl = "jikan" /\ Len(chain) = ChainLimit

\* C5: the start's id is in seen from the first step of the walk on, so that
\* for every relation graph the start id occurs exactly once in the chain and
\* no id occurs twice in the seasons list that getInfo returns.
C5_StartOnceNoDuplicate ==
    SeasonsSent =>
        /\ chain # <<>> => Count(chain, startId) = 1
        /\ \A a, b \in 1..Len(infoResponse.val.seasons) :
              a # b => infoResponse.val.seasons[a].id # infoResponse.val.seasons[b].id

\* C6: a failed lookup during the walk never fails the query: the response is
\* the summary with the seasons resolved so far (a partial chain that still
\* holds the start), not an error and not an empty seasons list.
C6_FailureKeepsPartialChain ==
    (scPc = "done" /\ WalkFailures # {}) =>
        /\ infoResponse.val.status = 200
        /\ \E k \in 1..Len(infoResponse.val.seasons) : infoResponse.val.seasons[k].id = startId

\* C7: in both directions a candidate whose lookup failed is not part of the
\* chain: the chain ends at the last node whose lookup succeeded.
C7_FailedCandidateNotInChain ==
    (SeasonsSent /\ infoResponse.val.seasons # <<>>) =>
        \A f \in WalkFailures :
            f.id # startId =>
                \A k \in 1..Len(infoResponse.val.seasons) : infoResponse.val.seasons[k].id # f.id

\* The chain the walks resolved, from their history: the prequels pushed, the
\* last one first, then the start, then the sequels in the order pushed
WalkOrder == Reverse(PushedIn("back")) \o <<startId>> \o PushedIn("fwd")

\* What getInfo sends of it: nothing when the chain was abandoned (a movie, no
\* start record, a lookup that threw), and the non-movie nodes otherwise
ChainAbandoned ==
    \/ \E f \in failedAt : f.how = "throw" \/ f.dir = "start"
    \/ (impl = "anilist" /\ format[startId] = "MOVIE")

ExpectedSeasonIds ==
    IF ChainAbandoned THEN <<>>
    ELSE IF impl = "anilist" THEN SelectSeq(WalkOrder, LAMBDA id : format[id] # "MOVIE")
    ELSE WalkOrder

\* C8: the seasons list is ordered earliest prequel first, then the start,
\* then the sequels in walk order, and its numbers are exactly 1..n in list
\* order, also after movie nodes were filtered out.
C8_SeasonsOrderedAndNumbered ==
    SeasonsSent =>
        /\ Ids(infoResponse.val.seasons) = ExpectedSeasonIds
        /\ \A k \in 1..Len(infoResponse.val.seasons) : infoResponse.val.seasons[k].number = k

\* C8 witness: an AniList walk with two prequels and a sequel, one of them a
\* movie that was filtered out of the seasons.
C8_Witness ==
    /\ SeasonsSent
    /\ impl = "anilist"
    /\ Len(PushedIn("back")) = 2
    /\ Len(PushedIn("fwd")) >= 1
    /\ Len(infoResponse.val.seasons) = Len(chain) - 1
    /\ format[chain[2]] = "MOVIE"

(***************************************************************************)
(* Claims about fetchJson                                                  *)
(***************************************************************************)
Is429(ev) == ev.kind = "http" /\ ev.status = 429
Http(st) == [kind |-> "http", status |-> st, body |-> "json"]
JikanFetchDone == fjImpl = "jikan" /\ fjPc = "done"

\* C9: with maxRetries = n, fetchJson makes at most n + 1 attempts, makes a
\* further attempt only after a 429 and only after the backoff wait, and ends
\* with the result of the first response that is not a 429 or, after n + 1
\* 429s, with a failed result.  [429, 429, 200] with n = 2 gives the 200
\* result; 429s throughout with n = 1 give a failed result after 2 attempts.
C9_RetryOn429 ==
    fjImpl = "jikan" =>
        /\ attempts <= maxRetries + 1
        /\ Len(responses) = attempts
        /\ \A k \in 1..(attempts - 1) : Is429(responses[k])
        /\ fjPc = "call" => waited = BackoffMs * attempts
        /\ fjPc \in {"backoff", "done"} => waited = BackoffMs * (attempts - 1)
        /\ fjPc = "backoff" => Is429(responses[attempts])
        /\ fjPc = "done" =>
             LET last == responses[attempts] IN
             /\ Is429(last) => attempts = maxRetries + 1
             /\ last.kind = "http" /\ ~ IsOk(last.status) =>
                    fjResult = Returned(Some([ok |-> FALSE, status |-> last.status]))
             /\ last = Http(200) => fjResult = Returned(Some([ok |-> TRUE, status |-> 200]))
             /\ fjResult.how = "returned" => fjResult.value.val.status = last.status
        /\ (fjPc = "done" /\ maxRetries = 1 /\ Is429(responses[1]) /\ Is429(responses[attempts])) =>
             attempts = 2 /\ fjResult = Returned(Some([ok |-> FALSE, status |-> 429]))

\* C9 witness: [429, 429, 200] with maxRetries = 2 ended with the 200 result
C9_Witness ==
    /\ JikanFetchDone
    /\ maxRetries = 2
    /\ responses = <<Http(429), Http(429), Http(200)>>
    /\ fjResult = Returned(Some([ok |-> TRUE, status |-> 200]))
    /\ waited = 2 * BackoffMs

\* C10: fetchJson never raises: a network error, an abort by the timeout and
\* a body that does not parse each end in a negative result that is returned.
C10_NeverRaises == fjPc = "done" => fjResult.how = "returned"

(***************************************************************************)
(* Claims about the TTL caches                                             *)
(***************************************************************************)
\* The latest write that preceded the read made last, and the time between them
LastSet == ckGot.val.lastSet
Elapsed == ckGot.val.at - LastSet.val.at

\* C12: a read of key k, after a write of v to k that is the latest one, gives
\* v when less than the TTL has elapsed since the write and gives nothing when
\* more than the TTL has elapsed; a read of a key never written gives nothing.
C12_TtlCache ==
    ckGot.some =>
        LET ttl == IF ckImpl = "jikan" THEN EPISODES_TTL_MS ELSE TTL_MS IN
        /\ ~ LastSet.some => ckGot.val.value = JsNull
        /\ (LastSet.some /\ Elapsed < ttl) => ckGot.val.value = LastSet.val.value
        /\ (LastSet.some /\ Elapsed > ttl) => ckGot.val.value = JsNull

\* C12 holds of the cache of part_000 taken alone
C12_AniListCache == ckImpl = "anilist" => C12_TtlCache

(***************************************************************************)
(* Claims about the Jikan getEpisodes handler                              *)
(***************************************************************************)
JeDone(r) == reqs[r].pc = "done"
JeSent(r) == reqs[r].response.val
\* The fallback providers a request fetched, in the order fetched
Secondary(r) == SelectSeq(reqs[r].queried, LAMBDA x : x \notin {"primary", "info"})
\* What the upstream holds for a request, as far as it was asked
PrimaryOf(r) == upstream.primary[reqs[r].page]
PrimaryNonEmpty(r) ==
    PrimaryOf(r).some /\ IsOk(PrimaryOf(r).val.status) /\ PrimaryOf(r).val.data # <<>>
ProviderNonEmpty(k) ==
    upstream.prov[k].some /\ IsOk(upstream.prov[k].val.status)
        /\ upstream.prov[k].val.episodes # <<>>

\* C11: a fetch of getEpisodes that is aborted by its timeout counts as a
\* failure of that source only: the request still ends with an episodes
\* payload (possibly empty), not with an error response.
C11_TimeoutFallsBack ==
    \A r \in Requests :
        (JeDone(r) /\ reqs[r].fault.some /\ reqs[r].fault.val.kind = "abort") =>
            JeSent(r).status = 200

\* The order fixed for the secondary sources
FixedOrder == <<"gogoanime", "zoro", "animepahe">>

\* C13, the part that holds in every state: the secondary sources are fetched
\* one at a time in the fixed order, only after the primary source gave no
\* episode, and each only after the one before it gave none; the first source
\* with a non-empty list determines the response; when every source is empty
\* the response is {episodes: [], pagination: null}.
C13_Order(r) ==
    LET q == reqs[r]
        sec == Secondary(r)
    IN  /\ sec = SubSeq(FixedOrder, 1, Len(sec))
        /\ sec # <<>> => (q.queried[1] = "primary" /\ q.queried[2] = "info"
                           /\ ~ PrimaryNonEmpty(r))
        /\ \A k \in 1..(Len(sec) - 1) : upstream.prov[k].some /\ ~ ProviderNonEmpty(k)
        /\ (JeDone(r) /\ ~ q.hit /\ ~ q.fault.some) =>
              IF PrimaryNonEmpty(r)
              THEN /\ q.queried = <<"primary">>
                   /\ JeSent(r).payload.episodes = JikanPrimaryEpisodes(PrimaryOf(r).val.data)
              ELSE IF sec # <<>> /\ ProviderNonEmpty(Len(sec))
              THEN JeSent(r) = [status |-> 200,
                                payload |-> Payload(JikanProviderEpisodes(FixedOrder[Len(sec)],
                                                        upstream.prov[Len(sec)].val.episodes),
                                                    JikanFallbackPagination(
                                                        Len(upstream.prov[Len(sec)].val.episodes),
                                                        q.page))]
              ELSE /\ JeSent(r) = [status |-> 200,
                                   payload |-> [episodes |-> <<>>, pagination |-> JsNull]]
                   /\ (upstream.info.val.status = 200 /\ upstream.info.val.title) =>
                          sec = FixedOrder

\* C13: the fallback order of the Jikan getEpisodes, and the empty result is
\* stored in the cache under the request's key by the step that sends it.
C13_FallbackOrder ==
    /\ [](\A r \in Requests : C13_Order(r))
    /\ [][\A r \in Requests :
            (reqs[r].pc # "done" /\ reqs'[r].pc = "done" /\ ~ reqs'[r].hit
                /\ reqs'[r].response.val = [status |-> 200,
                                            payload |-> [episodes |-> <<>>,
                                                         pagination |-> JsNull]]) =>
                cache'[reqs'[r].page] =
                    [some |-> TRUE, at |-> reqs'[r].now,
                     data |-> Some([episodes |-> <<>>, pagination |-> JsNull])]]_vars

\* C13 witness: the primary source and gogoanime gave no episode, zoro gave
\* some: the response is zoro's list and animepahe was not asked.
C13_Witness ==
    \E r \in Requests :
        /\ JeDone(r)
        /\ reqs[r].queried = <<"primary", "info", "gogoanime", "zoro">>
        /\ JeSent(r).status = 200
        /\ JeSent(r).payload.episodes # <<>>
        /\ JeSent(r).payload.episodes[1].id[1] = "zoro"

\* Two requests for the same key that both arrived while the cache was cold
\* and fresh, and that no fault touched
SameColdKey ==
    /\ \A r \in Requests : JeDone(r) /\ JeSent(r).status = 200 /\ reqs[r].now = 0
    /\ clock = 0
    /\ reqs[1].page = reqs[2].page

\* C14: two concurrent requests for the same cold key, against unchanged
\* upstream data, return the same payload under every interleaving, and once
\* both have finished the cache entry of the key holds that payload.
C14_ConcurrentSamePayload ==
    SameColdKey =>
        /\ JeSent(1).payload = JeSent(2).payload
        /\ cache[reqs[1].page].some
        /\ cache[reqs[1].page].data = Some(JeSent(1).payload)

\* C14 holds of the interleavings in which both requests missed the cache
C14_BothMissed == (SameColdKey /\ ~ reqs[1].hit /\ ~ reqs[2].hit) => C14_ConcurrentSamePayload

\* C20: every episode record the Jikan getEpisodes returns, from the primary
\* source and from a fallback provider alike, has number > 0: a missing,
\* non-numeric or non-positive number is replaced by the 1-based position.
C20_NumbersPositive ==
    \A r \in Requests :
        (JeDone(r) /\ JeSent(r).status = 200) =>
            \A k \in 1..Len(JeSent(r).payload.episodes) :
                JeSent(r).payload.episodes[k].number > 0

\* C20 holds of the episodes that come from the primary source
C20_PrimaryPositive ==
    \A r \in Requests :
        (JeDone(r) /\ JeSent(r).status = 200) =>
            \A k \in 1..Len(JeSent(r).payload.episodes) :
                JeSent(r).payload.episodes[k].id[1] = "primary" =>
                    JeSent(r).payload.episodes[k].number > 0

(***************************************************************************)
(* Claims about the route handlers                                         *)
(***************************************************************************)
FailedCalls == SelectSeq(faCalls, LAMBDA c : c.outcome \in Failures)

\* The list key each operation's result carries
ListKey ==
    CASE faOp \in {"trending", "search", "discover", "new"} -> "results"
      [] faOp = "episodes" -> "episodes"
      [] faOp = "streaming" -> "links"
      [] OTHER -> "seasons"

\* C15: for every operation, a single failing upstream response (non-2xx,
\* network error, timeout) never produces an error response: the result is
\* well-formed, its list key present (the list empty when nothing was obtained).
C15_SingleFailureNoError ==
    (faPc = "done" /\ Len(FailedCalls) = 1) =>
        /\ faResponse.val.status = 200
        /\ faResponse.val.key = ListKey

\* C15 holds of the episodes and streaming operations
C15_EpisodesAndStreaming ==
    (faPc = "done" /\ faOp \in {"episodes", "streaming"}) =>
        /\ faResponse.val.status = 200
        /\ faResponse.val.key = ListKey

(***************************************************************************)
(* Claims about empty provider lists and about the numbers kept            *)
(***************************************************************************)
\* The episode source answered with the provider array and no provider in it
\* lists an episode (the array may hold no provider at all)
AllProvidersEmpty ==
    Reconciled /\ \A i \in 1..Len(anifyData) : anifyData[i].episodes = <<>>

\* C18: when every provider's episode list is empty, also when the episode
\* source lists no provider at all, getEpisodes of part_000 answers with
\* episodes = [] and a pagination object that is not null and whose
\* items.total is 0.
C18_EmptyProvidersValidResult ==
    AllProvidersEmpty =>
        /\ epResponse.some
        /\ epResponse.val.episodes = <<>>
        /\ epResponse.val.pagination.some
        /\ epResponse.val.pagination.val.items.total = 0

\* C18 witness: the handler has answered a title for which the episode source
\* lists two providers, neither with an episode.
C18_Witness ==
    /\ AllProvidersEmpty
    /\ Len(anifyData) = 2
    /\ epResponse.some

\* C19: every record of a reconciled episode list has a number that is a
\* positive integer (>= 1); raw episodes whose number is zero, negative,
\* missing or not numeric are not in the list.
C19_NumbersPositiveIntegers ==
    Reconciled => \A k \in 1..Len(epList) : epList[k].number >= 1

\* C19, the part the merge does enforce: no record has the number 0, which is
\* what a zero, missing or non-numeric raw number becomes.
C19_NoZeroNumber ==
    Reconciled => \A k \in 1..Len(epList) : epList[k].number # 0

(***************************************************************************)
(* Claims about normalizeBaseTitle and about the pagination object         *)
(***************************************************************************)
\* C16: normalizeBaseTitle is idempotent: normalizing a title that
\* normalizeBaseTitle returned gives that title back, so no returned title ends
\* in a marker a further normalization would strip.
C16_Idempotent ==
    Len(passes) >= 2 => passes[2] = passes[1]

\* C16, what does hold: a second call never lengthens the title, and a title
\* the first call left unchanged stays unchanged.
C16_SecondPassOnlyShortens ==
    Len(passes) >= 2 =>
        /\ Len(passes[2]) <= Len(passes[1])
        /\ passes[2] = Prefix(passes[1], Len(passes[2]))

\* C27: normalizing "Attack on Titan Final Season Part 2" yields
\* "Attack on Titan".
C27_AttackOnTitan ==
    (rawTitle = ScenarioTitle /\ passes # <<>>) => passes[1] = <<"Attack", "on", "Titan">>

\* C27 witness: the scenario's title has been normalized.
C27_Witness ==
    /\ rawTitle = <<"Attack", "on", "Titan", "Final", "Season", "Part", "2">>
    /\ Len(passes) >= 1

Built == pgImpl # "none" /\ pgResult.some

\* n = ceil(total / 24), stated without the division
IsCeilOfPages(n, total) == n * 24 >= total /\ (n - 1) * 24 < total

\* C17 as stated: for every total >= 0 and page >= 1, has_next_page is
\* total > page * 24 and last_visible_page is ceil(total / 24), also for total = 0.
C17_PaginationAsStated ==
    Built =>
        /\ pgResult.val.has_next_page = (pgTotal > pgPage * 24)
        /\ IsCeilOfPages(pgResult.val.last_visible_page, pgTotal)

\* C17 amended: for every total >= 0 and page >= 1, has_next_page is
\* total > page * 24, and last_visible_page is max(1, ceil(total / 24)): it is
\* ceil(total / 24) for total >= 1 and 1 for total = 0.
C17_Pagination ==
    Built =>
        /\ pgResult.val.has_next_page = (pgTotal > pgPage * 24)
        /\ pgTotal >= 1 => IsCeilOfPages(pgResult.val.last_visible_page, pgTotal)
        /\ pgTotal = 0 => pgResult.val.last_visible_page = 1

\* C17 witness: the handler of part_000 built the object for an empty list,
\* page 1: one visible page and none after it.
C17_Witness ==
    /\ Built
    /\ pgImpl = "anilist"
    /\ pgTotal = 0
    /\ pgPage = 1
    /\ pgResult.val.last_visible_page = 1
    /\ ~ pgResult.val.has_next_page

(***************************************************************************)
(* Claims about what the Jikan getEpisodes handler writes to its cache     *)
(***************************************************************************)
\* The answer a source gave, as far as it answered
SourceAnswer(up, page, src) ==
    IF src = "primary" THEN up.primary[page]
    ELSE IF src = "info" THEN up.info
    ELSE up.prov[IndexOf(FixedOrder, src) + 1]

\* One of the fetches request q made so far was answered with a 2xx status
HadSuccess(q, up) ==
    \E i \in 1..Len(q.queried) :
        LET a == SourceAnswer(up, q.page, q.queried[i])
        IN  a.some /\ IsOk(a.val.status)

\* C21: a cache entry is created or overwritten only after a successful
\* upstream fetch for its key: a request whose lookups all failed (non-2xx,
\* network error, timeout) leaves the cache unchanged.
C21_WriteOnlyAfterSuccess ==
    [][\A k \in CacheKeys :
          cache'[k] # cache[k] =>
              \E r \in Requests :
                  /\ reqs'[r] # reqs[r]
                  /\ reqs'[r].page = k
                  /\ HadSuccess(reqs'[r], upstream')]_vars

\* C21, the part that holds: the step in which a fetch raises (network error,
\* abort by the timeout) writes nothing to the cache.
C21_RaisedFetchStoresNothing ==
    [][\A r \in Requests : reqs'[r].fault # reqs[r].fault => cache' = cache]_vars

\* C30: every write to episodesCache stores the payload that the writing
\* request sends as its response, in the step that sends it: no request
\* caches a payload it does not return.
C30_CachedIsSent ==
    [][\A k \in CacheKeys :
          cache'[k] # cache[k] =>
              \E r \in Requests :
                  /\ reqs[r].pc # "done"
                  /\ reqs'[r].pc = "done"
                  /\ reqs'[r].page = k
                  /\ reqs'[r].response = JeOk(cache'[k].data.val)]_vars

\* C30, the part that holds: a request that sends a payload it built itself
\* leaves that payload in the cache under its key.
C30_SentIsCached ==
    [][\A r \in Requests :
          (reqs[r].pc # "done" /\ reqs'[r].pc = "done" /\ ~ reqs'[r].hit
              /\ reqs'[r].response.val.status = 200) =>
              /\ cache'[reqs'[r].page].some
              /\ cache'[reqs'[r].page].data = Some(reqs'[r].response.val.payload)]_vars

(***************************************************************************)
(* Claims about movies in the seasons list                                 *)
(***************************************************************************)
InfoSent == scPc = "done" /\ infoResponse.some /\ infoResponse.val.status = 200

\* C24: when the requested title's format is MOVIE, getInfo returns an empty
\* seasons list; and no node of MOVIE format is in the seasons list of any title.
C24_MovieNoSeasons ==
    InfoSent =>
        LET seasons == infoResponse.val.seasons IN
        /\ format[startId] = "MOVIE" => seasons = <<>>
        /\ \A k \in 1..Len(seasons) :
              seasons[k].id <= Len(format) => format[seasons[k].id] # "MOVIE"

\* C24 holds of the getInfo of part_000
C24_AniListMovieNoSeasons == impl = "anilist" => C24_MovieNoSeasons

(***************************************************************************)
(* Claims about the choice among the candidates of a relation              *)
(***************************************************************************)
\* The places, in the order listed, of the candidates of the type walked
CandidatePlaces ==
    SelectSeq([k \in 1..Len(pkList) |-> k], LAMBDA k : pkList[k].relationType = pkType)

\* The candidate the call returned: its place, or 0 when it returned nothing
PickedPlace == IF pkPicked.val.some THEN pkPicked.val.val.id ELSE 0

\* The first of the candidates whose format is in `wanted` when there is one,
\* otherwise the first candidate, otherwise none
FirstOf(wanted) ==
    LET c == CandidatePlaces
        hits == {k \in 1..Len(c) : pkList[c[k]].format \in wanted}
    IN  IF hits # {} THEN c[CHOOSE k \in hits : \A j \in hits : k <= j]
        ELSE IF c # <<>> THEN c[1]
        ELSE 0

\* C28 as stated: among several candidates of the relation type walked the
\* one whose format is "TV" is selected if there is one, whatever its position
\* and whatever formats precede it, otherwise the first candidate.
C28_TvPreferredAsStated ==
    pkPicked.some => PickedPlace = FirstOf({"TV"})

\* C28 amended: pickRelation (anime.ts) selects the first candidate whose
\* format is "TV"; pickEdge (part_000) selects the first candidate whose format
\* is "TV" or "ONA", so an "ONA" candidate listed before a "TV" one is selected;
\* candidates of other formats that precede are passed over; when no candidate
\* has such a format the first candidate is selected.
C28_TieBreak ==
    pkPicked.some =>
        PickedPlace = FirstOf(IF pkImpl = "anilist" THEN {"TV", "ONA"} ELSE {"TV"})

\* C28 witness: pickEdge, three candidates of the type walked, a movie, then
\* an ONA, then a TV series: the ONA is selected.
C28_Witness ==
    /\ pkPicked.some
    /\ pkImpl = "anilist"
    /\ Len(CandidatePlaces) = 3
    /\ pkList[1].format = "MOVIE"
    /\ pkList[2].format = "ONA"
    /\ pkList[3].format = "TV"
    /\ PickedPlace = 2

(***************************************************************************)
(* Claims about the cache keys                                             *)
(***************************************************************************)
\* C22: distinct logical queries never share a cache key: whenever a request
\* is answered from a cache, the entry was stored by a request with the same
\* request-shaping parameters (same id and page; same query and variables;
\* same resolved id).
C22_NoKeyCollision ==
    kcServed.some => kcServed.val.to = kcServed.val.by

\* C22 witness: a request for the id "1:" and page 1 was answered from
\* episodesCache while the cache also held the entry of id "1", page 11.
C22_Witness ==
    /\ kcImpl = "episodes"
    /\ kcServed.some
    /\ kcServed.val.to = [kind |-> "episodes", a |-> <<"1", ":">>, b |-> <<"1">>]
    /\ \E e \in kcCache : e.by = [kind |-> "episodes", a |-> <<"1">>, b |-> <<"1", "1">>]

(***************************************************************************)
(* Claims about the expiry boundary                                        *)
(***************************************************************************)
\* A step that reads the cache, when the key read has an entry: the entry is
\* given exactly when its age, now - storedAt, is not above the TTL
ReadAtBoundary(ttl) ==
    (ckGot' # ckGot /\ ckGot'.some /\ cache[ckGot'.val.key].some) =>
        LET e == cache[ckGot'.val.key]
            age == ckGot'.val.at - e.at
        IN  ckGot'.val.value = IF age > ttl THEN JsNull ELSE e.data

\* C29: in every cache an entry is expired exactly when now - storedAt > ttl,
\* so an entry whose age equals the TTL is still served.
C29_ExpiryBoundary ==
    [][ReadAtBoundary(IF ckImpl = "jikan" THEN EPISODES_TTL_MS ELSE TTL_MS)]_vars

\* C29 holds of the cache of part_000
C29_AniListBoundary ==
    [][ckImpl = "anilist" => ReadAtBoundary(TTL_MS)]_vars

(***************************************************************************)
(* Claims about the streaming scan                                         *)
(***************************************************************************)
\* The scan of the provider array has ended and its response is sent
Scanned == stPc = "done" /\ stIdx > 0

\* The position at which the scan stopped: the provider that gave links, or
\* the end of the array
StoppedAt ==
    IF stLinks # <<>> /\ stQueried # <<>> THEN stQueried[Len(stQueried)].pos
    ELSE Len(stProviders)

\* The links that the k-th sources lookup gave
Yield(k) == LinksOf(stProviders[stQueried[k].pos].providerId, stQueried[k].answer)

\* The providers are scanned in preference order: listed providers in the
\* order of the list, unlisted ones after them (an entry without identifier
\* is never queried, wherever it stands)
ScannedInPreferenceOrder ==
    \A a, b \in 1..Len(stProviders) :
        (a < b /\ stProviders[a].providerId # "" /\ stProviders[b].providerId # "")
            => PreferenceRank(stProviders[a]) <= PreferenceRank(stProviders[b])

\* The scan stops at the first provider that yields a stream URL: the links
\* sent are those of one provider, the last one queried, every provider
\* queried before it gave none, and up to there every provider with a
\* matching episode was queried, in the order of the array.
StopsAtFirstYield ==
    /\ stResponse.val.links = stLinks
    /\ \A k \in 1..Len(stQueried) :
          /\ k < Len(stQueried) => Yield(k) = <<>>
          /\ k < Len(stQueried) => stQueried[k].pos < stQueried[k + 1].pos
    /\ IF stQueried = <<>> THEN stLinks = <<>> ELSE stLinks = Yield(Len(stQueried))
    /\ \A i \in 1..Len(stLinks) :
          stLinks[i].name = stProviders[StoppedAt].providerId
    /\ {stQueried[k].pos : k \in 1..Len(stQueried)}
          = {i \in 1..StoppedAt : ~ PassedOver(stProviders[i], stEpNum)}

\* C33: getStreaming scans the providers in preference order and stops at the
\* first provider that yields at least one stream URL for the episode: all
\* links of a response carry the same provider name, no provider after that
\* one is queried, and a provider without a matching episode or without
\* sources is skipped without ending the scan.
C33_PreferenceScan == Scanned => (ScannedInPreferenceOrder /\ StopsAtFirstYield)

\* C33 holds but for the place of unlisted providers: the scan follows the
\* array as sorted and stops at the first provider that yields a stream URL
C33_StopsAtFirstYield == Scanned => StopsAtFirstYield

\* C33 holds when every provider of the array is in the preference list
C33_ListedProviders ==
    (Scanned /\ \A i \in 1..Len(stProviders) : ProviderRank(stProviders[i]) >= 0)
        => C33_PreferenceScan

(***************************************************************************)
(* Claims about the Discover page                                          *)
(***************************************************************************)
\* C34: under any interleaving of overlapping load() calls, with the
\* responses arriving in any order, the results displayed are pages 1..page of
\* one single (q, genre) query in page order: no two queries mixed, no page
\* twice, and the page number is the last page in the results.  ('Load more'
\* clicked over a text typed and not submitted is left aside: it mixes two
\* queries without any overlap.)
C34_PagesOfOneQuery ==
    (dvData.some /\ ~ dvStale) =>
        LET results == dvData.val.results
        IN  /\ Len(results) = dvPage
            /\ \A i \in 1..Len(results) :
                  /\ results[i].page = i
                  /\ results[i].query = results[1].query

\* C34 holds as long as no load() was called while another was in flight
C34_OneLoadAtATime == ~ dvOverlap => C34_PagesOfOneQuery

(***************************************************************************)
(* Claims about the pages of the episode list                              *)
(***************************************************************************)
\* The ids of the episodes in the response for page p
ServedIds(p) == {pgServed[p].val[i].id : i \in 1..Len(pgServed[p].val)}

\* C31: the episode lists the AniList/Anify getEpisodes returns for pages
\* 1..last_visible_page hold at most 24 episodes each, are pairwise disjoint
\* and, concatenated in page order, are the full sorted list; every page
\* beyond last_visible_page is empty.
C31_PagesPartition ==
    (Built /\ pgImpl = "anilist") =>
        LET last == pgResult.val.last_visible_page
        IN  /\ \A p \in 1..MaxPage :
                  pgServed[p].some =>
                      /\ Len(pgServed[p].val) <= 24
                      /\ p > last => pgServed[p].val = <<>>
                      /\ \A q \in 1..MaxPage :
                            (q # p /\ pgServed[q].some) => ServedIds(p) \cap ServedIds(q) = {}
            /\ (last <= MaxPage /\ \A p \in 1..last : pgServed[p].some) =>
                  Concat([p \in 1..last |-> pgServed[p].val]) = EpisodeList(pgTotal)

\* C31 witness: a list of 25 episodes, pages 1, 2 and 3 requested: page 1
\* holds 24 episodes, page 2 the last one, page 3 is past the last page.
C31_Witness ==
    /\ Built
    /\ pgImpl = "anilist"
    /\ pgTotal = 25
    /\ \A p \in 1..3 : pgServed[p].some
    /\ Len(pgServed[1].val) = 24
    /\ Len(pgServed[2].val) = 1
    /\ pgServed[3].val = <<>>

\* C32: in every getEpisodes response with a computed pagination object,
\* pagination.items.count is the number of episode records of that response and
\* is never negative, for every total and every page >= 1.
C32_CountIsLength ==
    Built =>
        /\ pgResult.val.items.count = Len(pgServed[pgPage].val)
        /\ pgResult.val.items.count >= 0

\* C32 holds of the handler of part_000
C32_AniListCountIsLength == pgImpl = "anilist" => C32_CountIsLength

(***************************************************************************)
(* Claims about repeated episode requests                                  *)
(***************************************************************************)
\* C26: against unchanged source data, two getEpisodes calls for the same id
\* and page, served fresh or from the cache, return the same episode records,
\* with the same ids, in the same order.
C26_SameRecords ==
    \A r1, r2 \in Requests :
        ( /\ JeDone(r1) /\ JeDone(r2)
          /\ reqs[r1].page = reqs[r2].page
          /\ reqs[r1].fault = Null /\ reqs[r2].fault = Null
          /\ JeSent(r1).status = 200 /\ JeSent(r2).status = 200 )
        => JeSent(r1).payload.episodes = JeSent(r2).payload.episodes

\* C26 holds of two requests that both went to the sources, within one TTL
\* or across an expiry
C26_FreshSameRecords ==
    \A r1, r2 \in Requests :
        ( /\ JeDone(r1) /\ JeDone(r2)
          /\ reqs[r1].page = reqs[r2].page
          /\ reqs[r1].fault = Null /\ reqs[r2].fault = Null
          /\ ~ reqs[r1].hit /\ ~ reqs[r2].hit )
        => JeSent(r1).payload.episodes = JeSent(r2).payload.episodes

\* C26 holds of the handler over the provider array: the request served from
\* the cached array, which the first request sorted in place, sends the
\* response of the first request
C26_CachedArraySameRecords ==
    [][GetEpisodesCached => (epResponse' = epResponse /\ epList' = epList /\ epData' = epData)]_vars

(***************************************************************************)
(* Claims about identifier resolution and about requests being answered    *)
(***************************************************************************)
\* How the lookup by MAL id and the lookup by AniList id ended ("not made"
\* when the call was not made)
LookupOutcome(target) ==
    LET hits == SelectSeq(faCalls, LAMBDA c : c.target = target)
    IN  IF hits = <<>> THEN "not made" ELSE hits[1].outcome

\* C23: getAniIdsByMalOrAni looks a numeric id up in the MAL namespace first
\* and returns that match when there is one; it looks the id up in the AniList
\* namespace only when the MAL lookup found nothing or failed; it returns
\* {id: null, idMal: null} exactly when neither lookup yields a title or the
\* input is not a finite number; no failed lookup makes it throw, and getInfo
\* answers an unresolved id with 404 "Not found", not with an internal error.
C23_IdResolution ==
    /\ \A i \in 1..Len(faCalls) :
          /\ faCalls[i].target = "gql byMal" => i = 1
          /\ faCalls[i].target = "gql byId" =>
                /\ i = 2
                /\ faCalls[1].target = "gql byMal"
                /\ faCalls[1].outcome \in {"empty"} \cup Failures
    /\ faIds.some =>
          /\ faIds.val.finite <=> LookupOutcome("gql byMal") # "not made"
          /\ faIds.val.title = "byMal" <=> LookupOutcome("gql byMal") = "data"
          /\ faIds.val.title = "byId" <=> LookupOutcome("gql byId") = "data"
          /\ faIds.val.title = "none" <=>
                \/ ~ faIds.val.finite
                \/ /\ LookupOutcome("gql byMal") \in {"empty"} \cup Failures
                   /\ LookupOutcome("gql byId") \in {"empty"} \cup Failures
          /\ faIds.val.title = "none" =>
                /\ faPc = "done"
                /\ faResponse = IF faOp = "info" THEN FaFail(404)
                                ELSE FaOk(ListKey, FALSE)

\* C23 witness: getInfo for a numeric id; the lookup by MAL id failed with a
\* non-2xx status, the lookup by AniList id found no title: 404.
C23_Witness ==
    /\ faOp = "info"
    /\ faCalls = <<[target |-> "gql byMal", outcome |-> "non2xx"],
                   [target |-> "gql byId", outcome |-> "empty"]>>
    /\ faIds = Some([finite |-> TRUE, title |-> "none"])
    /\ faResponse.some
    /\ faResponse.val.status = 404

\* C25: every request to every operation eventually receives a response,
\* also when an upstream provider never answers.
C25_EveryRequestAnswered == <>(faPc = "done")

\* C25, the part that holds: a handler that waits only on fetchJson, which
\* aborts its fetch after the timeout, sends its response.
C25_TimedCallsAnswered ==
    (faPc \in {"main", "sources"} /\ faOp \in {"episodes", "streaming"}) ~> (faPc = "done")

\* The walk always comes to an end once every lookup is answered
SpecSeasonsFair == SpecSeasons /\ WF_vars(NextSeasons)

====
